---------------------------- MODULE Spec2Model ----------------------------
(***************************************************************************)
(* A model of screenOCR: the text layout reconstructor of                  *)
(* build/ScreenOCR.AppDir/ocr_engine.py (OCREngine._rapidocr_extract,      *)
(* _fix_python_syntax, _normalize_indentation) and the trigger workflow of *)
(* main.py (OcrApplication).                                               *)
(*                                                                         *)
(* Text is modelled by TLA+ strings, read as sequences of one-character    *)
(* strings (Len, SubSeq and \o apply to them).  The regular expressions of *)
(* the correction pass are kept as syntax trees and run by one matcher     *)
(* with Python's re semantics (leftmost match, greedy quantifiers with     *)
(* backtracking, non-overlapping substitution).                            *)
(***************************************************************************)
EXTENDS Integers, Sequences, FiniteSets, TLC

(***************************************************************************)
(* Characters and Python's str helpers.                                    *)
(***************************************************************************)
LowerStr == "abcdefghijklmnopqrstuvwxyz"
UpperStr == "ABCDEFGHIJKLMNOPQRSTUVWXYZ"
DigitStr == "0123456789"

CharsOf(str) == {SubSeq(str, i, i) : i \in 1..Len(str)}

LowerCh == CharsOf(LowerStr)
UpperCh == CharsOf(UpperStr)
AlphaCh == LowerCh \cup UpperCh
\* \w of Python's re, on ASCII text
WordCh == AlphaCh \cup CharsOf(DigitStr) \cup {"_"}
\* \s of Python's re and the characters str.strip() removes, on ASCII text
SpaceCh == {" ", "\t", "\n", "\r", "\f"}

At(s, i) == SubSeq(s, i, i)

ToLower(c) ==
    IF c \in UpperCh
    THEN At(LowerStr, CHOOSE i \in 1..Len(UpperStr) : At(UpperStr, i) = c)
    ELSE c

ToUpper(c) ==
    IF c \in LowerCh
    THEN At(UpperStr, CHOOSE i \in 1..Len(LowerStr) : At(LowerStr, i) = c)
    ELSE c

RECURSIVE LowerOf(_)
\* str.lower()
LowerOf(s) ==
    IF s = "" THEN ""
    ELSE IF Len(s) = 1 THEN ToLower(s)
    ELSE LowerOf(SubSeq(s, 1, Len(s) \div 2)) \o LowerOf(SubSeq(s, Len(s) \div 2 + 1, Len(s)))

RECURSIVE Spaces(_)
\* ' ' * n
Spaces(n) == IF n <= 0 THEN "" ELSE " " \o Spaces(n - 1)

RECURSIVE LeadingWs(_)
\* len(s) - len(s.lstrip())
LeadingWs(s) ==
    IF s # "" /\ At(s, 1) \in SpaceCh THEN 1 + LeadingWs(Tail(s)) ELSE 0

RECURSIVE TrailingWs(_)
TrailingWs(s) ==
    IF s # "" /\ At(s, Len(s)) \in SpaceCh
    THEN 1 + TrailingWs(SubSeq(s, 1, Len(s) - 1))
    ELSE 0

\* str.lstrip()
LStrip(s) == SubSeq(s, LeadingWs(s) + 1, Len(s))

\* str.strip()
Strip(s) == LET t == LStrip(s) IN SubSeq(t, 1, Len(t) - TrailingWs(t))

\* s.startswith(p)
StartsWith(s, p) == Len(p) <= Len(s) /\ SubSeq(s, 1, Len(p)) = p

\* p in s
Contains(s, p) ==
    \E i \in 1..(Len(s) - Len(p) + 1) : SubSeq(s, i, i + Len(p) - 1) = p

RECURSIVE SplitFrom(_, _)
\* the pieces of s from position start on, each ending before a line break
SplitFrom(s, start) ==
    LET breaks == {i \in start..Len(s) : At(s, i) = "\n"}
    IN IF breaks = {} THEN <<SubSeq(s, start, Len(s))>>
       ELSE LET i == CHOOSE b \in breaks : \A c \in breaks : b <= c
            IN <<SubSeq(s, start, i - 1)>> \o SplitFrom(s, i + 1)

\* text.split('\n')
SplitLines(s) == SplitFrom(s, 1)

RECURSIVE JoinWith(_, _)
\* sep.join(parts)
JoinWith(parts, sep) ==
    IF Len(parts) = 0 THEN ""
    ELSE IF Len(parts) = 1 THEN parts[1]
    ELSE parts[1] \o sep \o JoinWith(Tail(parts), sep)

(***************************************************************************)
(* Regular expressions of Python's re module, as syntax trees.             *)
(***************************************************************************)
Lit(str) == [t |-> "lit", s |-> str]
In(cs) == [t |-> "set", cs |-> cs, neg |-> FALSE]
NotIn(cs) == [t |-> "set", cs |-> cs, neg |-> TRUE]
Cat(ns) == [t |-> "cat", ns |-> ns]
Alt(ns) == [t |-> "alt", ns |-> ns]
Star(n) == [t |-> "star", n |-> n]
Opt(n) == [t |-> "opt", n |-> n]
Plus(n) == Cat(<<n, Star(n)>>)
Grp(k, n) == [t |-> "grp", k |-> k, n |-> n]
Bol == [t |-> "bol"]
Eol == [t |-> "eol"]
WordB == [t |-> "wb"]
Ahead(n) == [t |-> "ahead", n |-> n]
NotBehind(cs) == [t |-> "nbehind", cs |-> cs]
WsStar == Star(In(SpaceCh))
WsPlus == Plus(In(SpaceCh))

\* no group has matched
NoGroups == <<<<0, 0>>, <<0, 0>>>>

\* a character against a class, under re.IGNORECASE when ic
InClass(c, cs, ic) == c \in cs \/ (ic /\ (ToLower(c) \in cs \/ ToUpper(c) \in cs))

SameText(a, b, ic) == IF ic THEN LowerOf(a) = LowerOf(b) ELSE a = b

IsWordAt(s, i) == i >= 1 /\ i <= Len(s) /\ At(s, i) \in WordCh

RECURSIVE Match(_, _, _, _, _)
RECURSIVE MatchCat(_, _, _, _, _, _)
RECURSIVE CatEach(_, _, _, _, _, _, _)
RECURSIVE MatchAlt(_, _, _, _, _, _)
RECURSIVE StarEach(_, _, _, _, _, _)
RECURSIVE SetGroup(_, _, _)

\* The matches of node n in s starting at position i (1-based), in the order
\* a backtracking matcher tries them: each is the position after the match
\* and the groups captured so far.
Match(n, s, i, g, ic) ==
    CASE n.t = "lit" ->
            IF i + Len(n.s) - 1 <= Len(s)
               /\ SameText(SubSeq(s, i, i + Len(n.s) - 1), n.s, ic)
            THEN <<[e |-> i + Len(n.s), g |-> g]>>
            ELSE <<>>
      [] n.t = "set" ->
            IF i <= Len(s) /\ (InClass(At(s, i), n.cs, ic) # n.neg)
            THEN <<[e |-> i + 1, g |-> g]>>
            ELSE <<>>
      [] n.t = "cat" -> MatchCat(n.ns, 1, s, i, g, ic)
      [] n.t = "alt" -> MatchAlt(n.ns, 1, s, i, g, ic)
      [] n.t = "star" /\ n.n.t = "set" ->
            \* the run of characters of the class from i on, longest match first
            LET stops == {q \in i..Len(s) : InClass(At(s, q), n.n.cs, ic) = n.n.neg}
                m == IF stops = {} THEN Len(s) + 1
                     ELSE CHOOSE q \in stops : \A r \in stops : q <= r
            IN [j \in 1..(m - i + 1) |-> [e |-> m - j + 1, g |-> g]]
      [] n.t = "star" /\ n.n.t # "set" ->
            StarEach(Match(n.n, s, i, g, ic), 1, n, s, i, ic) \o <<[e |-> i, g |-> g]>>
      [] n.t = "opt" -> Match(n.n, s, i, g, ic) \o <<[e |-> i, g |-> g]>>
      [] n.t = "grp" -> SetGroup(Match(n.n, s, i, g, ic), n.k, i)
      [] n.t = "bol" -> IF i = 1 THEN <<[e |-> i, g |-> g]>> ELSE <<>>
      [] n.t = "eol" -> IF i = Len(s) + 1 THEN <<[e |-> i, g |-> g]>> ELSE <<>>
      [] n.t = "wb" ->
            IF IsWordAt(s, i - 1) # IsWordAt(s, i) THEN <<[e |-> i, g |-> g]>> ELSE <<>>
      [] n.t = "ahead" ->
            IF Match(n.n, s, i, g, ic) # <<>> THEN <<[e |-> i, g |-> g]>> ELSE <<>>
      [] n.t = "nbehind" ->
            IF i > 1 /\ InClass(At(s, i - 1), n.cs, ic) THEN <<>> ELSE <<[e |-> i, g |-> g]>>

MatchCat(ns, k, s, i, g, ic) ==
    IF k > Len(ns) THEN <<[e |-> i, g |-> g]>>
    ELSE LET rs == Match(ns[k], s, i, g, ic) IN CatEach(rs, 1, Len(rs), ns, k, s, ic)

\* the rest of the concatenation after each of the matches rs[lo..hi], in order
CatEach(rs, lo, hi, ns, k, s, ic) ==
    IF lo > hi THEN <<>>
    ELSE IF lo = hi THEN MatchCat(ns, k + 1, s, rs[lo].e, rs[lo].g, ic)
    ELSE CatEach(rs, lo, (lo + hi) \div 2, ns, k, s, ic)
         \o CatEach(rs, (lo + hi) \div 2 + 1, hi, ns, k, s, ic)

MatchAlt(ns, k, s, i, g, ic) ==
    IF k > Len(ns) THEN <<>>
    ELSE Match(ns[k], s, i, g, ic) \o MatchAlt(ns, k + 1, s, i, g, ic)

\* one more iteration of a starred node, for each way its body matched
StarEach(rs, j, n, s, i, ic) ==
    IF j > Len(rs) THEN <<>>
    ELSE (IF rs[j].e > i THEN Match(n, s, rs[j].e, rs[j].g, ic) ELSE <<>>)
         \o StarEach(rs, j + 1, n, s, i, ic)

\* group k spans from i to the end of each match
SetGroup(rs, k, i) ==
    [j \in 1..Len(rs) |-> [e |-> rs[j].e, g |-> [rs[j].g EXCEPT ![k] = <<i, rs[j].e>>]]]

\* the least position of a non-empty set of positions
Leftmost(starts) == CHOOSE p \in starts : \A q \in starts : p <= q

\* the first way the pattern matches at the leftmost of the positions starts,
\* [st |-> 0] when there is none
SearchFirst(re, s, starts, ic) ==
    IF starts = {} THEN [st |-> 0, e |-> 0, g |-> NoGroups]
    ELSE [st |-> Leftmost(starts),
          e |-> Match(re, s, Leftmost(starts), NoGroups, ic)[1].e,
          g |-> Match(re, s, Leftmost(starts), NoGroups, ic)[1].g]

\* re.search from position pos: the leftmost match, [st |-> 0] when none
Search(re, s, pos, ic) ==
    SearchFirst(re, s, {p \in pos..(Len(s) + 1) : Match(re, s, p, NoGroups, ic) # <<>>}, ic)

\* re.search(re, s) is not None
Found(re, s, ic) == Search(re, s, 1, ic).st # 0

\* the parts of a replacement template
Txt(str) == [t |-> "txt", s |-> str]
Ref(k) == [t |-> "ref", k |-> k]
UpperRef(k) == [t |-> "upper", k |-> k]

GroupText(s, m, k) ==
    IF m.g[k][1] = 0 THEN "" ELSE SubSeq(s, m.g[k][1], m.g[k][2] - 1)

RECURSIVE Expand(_, _, _)
Expand(tmpl, s, m) ==
    IF Len(tmpl) = 0 THEN ""
    ELSE LET p == tmpl[1]
         IN (CASE p.t = "txt" -> p.s
               [] p.t = "ref" -> GroupText(s, m, p.k)
               [] p.t = "upper" -> ToUpper(GroupText(s, m, p.k)))
            \o Expand(Tail(tmpl), s, m)

RECURSIVE SubFrom(_, _, _, _, _)
SubFrom(re, tmpl, s, pos, ic) ==
    LET m == Search(re, s, pos, ic)
    IN IF m.st = 0 THEN SubSeq(s, pos, Len(s))
       ELSE SubSeq(s, pos, m.st - 1) \o Expand(tmpl, s, m)
            \o (IF m.e > m.st THEN SubFrom(re, tmpl, s, m.e, ic)
                ELSE At(s, m.st) \o SubFrom(re, tmpl, s, m.st + 1, ic))

\* re.sub(re, tmpl, s)
Sub(re, tmpl, s) == SubFrom(re, tmpl, s, 1, FALSE)

\* re.sub(re, tmpl, s, flags=re.IGNORECASE)
SubI(re, tmpl, s) == SubFrom(re, tmpl, s, 1, TRUE)

(***************************************************************************)
(* OCREngine._fix_python_syntax: the correction pass.                      *)
(***************************************************************************)
DQ == "\""
TQ == "\"\"\""

Rule(re, tmpl, ic) == [re |-> re, tmpl |-> tmpl, ic |-> ic]

\* "Fix common OCR artifacts" and "Fix missing spaces in imports"
QuoteRules == <<
    Rule(Lit("." \o TQ), <<Txt(TQ)>>, FALSE),
    Rule(Lit(TQ \o "." \o DQ), <<Txt(TQ)>>, FALSE),
    Rule(Cat(<<Bol, WsStar, Lit("."), WsStar, Lit(DQ)>>), <<Txt(DQ)>>, FALSE),
    Rule(Cat(<<Lit(DQ \o DQ), Grp(1, In(AlphaCh))>>), <<Txt(TQ), Ref(1)>>, FALSE),
    Rule(Cat(<<Grp(1, In(LowerCh)), Plus(Grp(2, Lit(TQ))), Eol>>),
         <<Ref(1), Txt(TQ)>>, FALSE),
    Rule(Cat(<<Grp(1, Alt(<<Bol, NotIn({DQ})>>)), Plus(Grp(2, Lit(TQ \o DQ)))>>),
         <<Ref(1), Txt(TQ)>>, FALSE),
    Rule(Lit(DQ \o DQ \o "."), <<Txt(TQ)>>, FALSE),
    Rule(Cat(<<Grp(1, Cat(<<WordB, Lit("import")>>)), Grp(2, In(LowerCh))>>),
         <<Ref(1), Txt(" "), Ref(2)>>, TRUE),
    Rule(Cat(<<Grp(1, Cat(<<WordB, Lit("from")>>)), Grp(2, In(LowerCh))>>),
         <<Ref(1), Txt(" "), Ref(2)>>, TRUE) >>

\* "Fix method name spacing issues - ONLY in non-docstring lines"
FindRules == <<
    Rule(Cat(<<Lit("_find"), WsPlus, Lit("screenshot"), WsPlus, Lit("_"), WsStar, Lit("tool")>>),
         <<Txt("_find_screenshot_tool")>>, FALSE),
    Rule(Cat(<<Lit("_find"), WsPlus, Lit("screenshot"), WsPlus, Lit("tool"), Ahead(Lit("("))>>),
         <<Txt("_find_screenshot_tool")>>, FALSE),
    Rule(Cat(<<Lit("_find"), WsPlus, Lit("screenshot"), WsStar, Eol>>),
         <<Txt("_find_screenshot")>>, FALSE),
    Rule(Cat(<<Lit("self."), WsStar, Opt(Lit("_")), WsStar, Lit("find"), WsPlus, Lit("screenshot")>>),
         <<Txt("self._find_screenshot")>>, FALSE),
    Rule(Cat(<<Lit("self."), WsPlus, Lit("f"), Ahead(Lit("ind"))>>),
         <<Txt("self._f")>>, FALSE),
    Rule(Cat(<<WordB, Lit("_find"), WsPlus, Lit("screenshot")>>),
         <<Txt("_find_screenshot")>>, FALSE) >>

TypingRule(lower, proper) ==
    Rule(Cat(<<WordB, NotBehind(LowerCh), Lit(lower), WordB>>), <<Txt(proper)>>, TRUE)

\* from "Fix return type hints" to "Clean up spacing"
CodeRules == <<
    Rule(Cat(<<Lit(")"), WsPlus, Lit("None"), WsStar, Lit(":")>>), <<Txt(") -> None:")>>, FALSE),
    Rule(Cat(<<Lit("]"), WsPlus, Lit("None"), WsStar, Lit(":")>>), <<Txt("] -> None:")>>, FALSE),
    Rule(Cat(<<WordB, Lit("def"), WsPlus, Lit("_"), Opt(Lit("_")), Lit("init_"), Opt(Lit("_")),
               WsStar, Lit("(")>>),
         <<Txt("def __init__(")>>, FALSE),
    Rule(Cat(<<WordB, Lit("init"), WsPlus, Lit("self)")>>), <<Txt("__init__(self)")>>, FALSE),
    Rule(Cat(<<WordB, Lit("init"), WsStar, Lit("(")>>), <<Txt("__init__(")>>, FALSE),
    Rule(Cat(<<WordB, Lit("init"), WordB, Ahead(In(SpaceCh))>>), <<Txt("__init__")>>, FALSE),
    Rule(Cat(<<WordB, Opt(Lit("_")), Lit("name"), Opt(Lit("_")), WsStar, Lit("==")>>),
         <<Txt("__name__ ==")>>, FALSE),
    Rule(Cat(<<Lit("=="), WsStar, In({DQ, "'"}), Opt(Lit("_")), Lit("main"), Opt(Lit("_")),
               In({DQ, "'"})>>),
         <<Txt("== " \o DQ \o "__main__" \o DQ)>>, FALSE),
    TypingRule("optional", "Optional"),
    TypingRule("tuple", "Tuple"),
    TypingRule("list", "List"),
    TypingRule("dict", "Dict"),
    TypingRule("set", "Set"),
    Rule(Cat(<<WordB, Lit("class"), WsPlus, Grp(1, In(LowerCh))>>),
         <<Txt("class "), UpperRef(1)>>, FALSE),
    Rule(Cat(<<WordB, Lit("Portalscreenshot"), WordB>>), <<Txt("PortalScreenshot")>>, FALSE),
    Rule(Cat(<<Grp(1, Cat(<<In(UpperCh), Plus(In(LowerCh))>>)), Lit("screenshot"), WordB>>),
         <<Ref(1), Txt("Screenshot")>>, TRUE),
    Rule(Cat(<<Lit("screenshot"), WsPlus, Lit("tool"), WsStar, Lit("("), WsStar, Lit(")")>>),
         <<Txt("screenshot_tool()")>>, FALSE),
    Rule(Cat(<<Lit("screenshot"), WsPlus, Lit("tool"),
               Ahead(Alt(<<In(SpaceCh), Eol, Lit(")")>>))>>),
         <<Txt("screenshot_tool")>>, FALSE),
    Rule(Cat(<<Grp(1, Lit("self.screenshot_tool")), WsPlus, Lit("self._find"), WsPlus,
               Lit("screenshot_tool()")>>),
         <<Ref(1), Txt(" = self._find_screenshot_tool()")>>, FALSE),
    Rule(Cat(<<Grp(1, Cat(<<Lit("self."), Plus(In(WordCh))>>)), WsPlus,
               Grp(2, Cat(<<Lit("self."), Opt(Lit("_")), Plus(In(WordCh)), Lit("(")>>))>>),
         <<Ref(1), Txt(" = "), Ref(2)>>, FALSE),
    Rule(Cat(<<Lit("Initialize"), WsPlus, Lit("connection."), WsPlus, Lit("portal")>>),
         <<Txt("Initialize portal connection.")>>, FALSE),
    Rule(Cat(<<WordB, Lit("self."), WsPlus>>), <<Txt("self.")>>, FALSE),
    Rule(Cat(<<NotBehind(WordCh), Lit("self"), Grp(1, In(LowerCh \cup {"_"}))>>),
         <<Txt("self."), Ref(1)>>, FALSE) >>

RECURSIVE ApplyFrom(_, _, _)
\* the re.sub calls rules[k], rules[k + 1], ... of a block, in source order
ApplyFrom(rules, k, line) ==
    IF k > Len(rules) THEN line
    ELSE LET next == SubFrom(rules[k].re, rules[k].tmpl, line, 1, rules[k].ic)
         IN IF next = line
            THEN ApplyFrom(rules, k + 1, line)
            ELSE ApplyFrom(rules, k + 1, next)

ApplyRules(rules, line) == ApplyFrom(rules, 1, line)

\* a rewrite that also appends a full stop to the line
RewriteAndMark(line) == ApplyRules(CodeRules, line) \o "."

\* a rewrite that ends the line with a line break
RewriteAndBreak(line) == ApplyRules(CodeRules, line) \o "\n"

\* the rewrites of one line, after the docstring promotion
RewriteLine(line) ==
    LET a == ApplyRules(QuoteRules, line)
        b == IF ~Contains(a, TQ) THEN ApplyRules(FindRules, a) ELSE a
    IN ApplyRules(CodeRules, b)

CodeMarkers ==
    {"def ", "class ", "=", "(", ")", "[", "]", "{", "}", "if ", "for ", "while ", "return "}

NextCodeMarkers ==
    {"def ", "class ", "=", "(", ")", "self.", "return ", "for ", "if "}

IsImportLine(stripped) ==
    StartsWith(LowerOf(stripped), "import ") \/ StartsWith(LowerOf(stripped), "from ")

IsCodeLine(stripped) == \E x \in CodeMarkers : Contains(stripped, x)

NextIsCode(lines, i) ==
    i + 1 <= Len(lines) /\ \E x \in NextCodeMarkers : Contains(Strip(lines[i + 1]), x)

\* a test that does not look at the next line
WrapsWithoutNextCode(lines, i) ==
    LET line == lines[i]
        stripped == Strip(line)
    IN /\ ~IsImportLine(stripped)
       /\ ~IsCodeLine(stripped)
       /\ Len(stripped) > 5
       /\ Len(stripped) < 100
       /\ ~Contains(line, TQ)
       /\ ~Contains(line, DQ)

\* "Only wrap in docstring quotes if it looks like a docstring AND next line is code"
WrapsDocstring(lines, i) ==
    LET line == lines[i]
        stripped == Strip(line)
    IN /\ ~IsImportLine(stripped)
       /\ ~IsCodeLine(stripped)
       /\ Len(stripped) > 5
       /\ Len(stripped) < 100
       /\ ~Contains(line, TQ)
       /\ ~Contains(line, DQ)
       /\ NextIsCode(lines, i)

PromoteLine(lines, i) ==
    IF WrapsDocstring(lines, i)
    THEN Spaces(LeadingWs(lines[i])) \o TQ \o Strip(lines[i]) \o TQ
    ELSE lines[i]

\* one iteration of the while loop: the line appended to fixed_lines
FixLine(lines, i) == RewriteLine(PromoteLine(lines, i))

FixPythonSyntax(text) ==
    LET lines == SplitLines(text)
    IN JoinWith([i \in 1..Len(lines) |-> FixLine(lines, i)], "\n")

(***************************************************************************)
(* OCREngine._normalize_indentation                                        *)
(***************************************************************************)
\* a look ahead over all the lines after line i
CodeLinesAnywhereAfter(lines, i) ==
    {j \in (i + 1)..Len(lines) :
        /\ Strip(lines[j]) # ""
        /\ ~Contains(Strip(lines[j]), TQ)}

\* the lines the look ahead of line i stops at: range(i + 1, min(i + 3, len(lines)))
CodeLinesAfter(lines, i) ==
    {j \in (i + 1)..(IF i + 3 < Len(lines) + 1 THEN i + 2 ELSE Len(lines)) :
        /\ Strip(lines[j]) # ""
        /\ ~Contains(Strip(lines[j]), TQ)}

Min(S) == CHOOSE m \in S : \A k \in S : m <= k

NormalizeLine(lines, i) ==
    IF Contains(lines[i], TQ) /\ CodeLinesAfter(lines, i) # {}
    THEN LET next_code_indent == LeadingWs(lines[Min(CodeLinesAfter(lines, i))])
         IN IF next_code_indent > 0
            THEN Spaces(next_code_indent) \o Strip(lines[i])
            ELSE lines[i]
    ELSE lines[i]

NormalizeIndentation(text) ==
    LET lines == SplitLines(text)
    IN JoinWith([i \in 1..Len(lines) |-> NormalizeLine(lines, i)], "\n")

(***************************************************************************)
(* OCREngine._rapidocr_extract: the layout reconstruction.                 *)
(*                                                                         *)
(* An item of the recognition result is a Python list [bbox, text,         *)
(* confidence]: n is its length (0 for a falsy item), box the top-left     *)
(* corner bbox[0] as <<x, y>> (<<>> for a bbox that cannot be indexed),    *)
(* conf the confidence in hundredths.                                      *)
(***************************************************************************)
Item(n, box, text, conf) == [n |-> n, box |-> box, text |-> text, conf |-> conf]

Max2(a, b) == IF a >= b THEN a ELSE b
Min2(a, b) == IF a <= b THEN a ELSE b

\* a / b rounded up
CeilDiv(a, b) == (a + b - 1) \div b

\* Python's round(a / b) for integers a >= 0, b > 0: to nearest, ties to even
PyRoundDiv(a, b) ==
    LET q == a \div b
        r == a % b
    IN IF 2 * r < b THEN q
       ELSE IF 2 * r > b THEN q + 1
       ELSE IF q % 2 = 0 THEN q ELSE q + 1

\* "if item and len(item) >= 2"
IsFragment(item) == item.n >= 2

\* int(bbox[0][0]) raises on a bbox that cannot be indexed
CollectRaises(result) == \E i \in 1..Len(result) : IsFragment(result[i]) /\ result[i].box = <<>>

\* confidence = float(item[2]) if len(item) > 2 else 1.0
ConfidenceOf(item) == IF item.n > 2 THEN item.conf ELSE 100

LineOf(item) ==
    [text |-> item.text, x |-> item.box[1], y |-> item.box[2], confidence |-> ConfidenceOf(item)]

RECURSIVE CollectConfidentLines(_)
\* a loop that drops the fragments of confidence below 0.5
CollectConfidentLines(result) ==
    IF Len(result) = 0 THEN <<>>
    ELSE (IF IsFragment(result[1]) /\ ConfidenceOf(result[1]) >= 50
          THEN <<LineOf(result[1])>> ELSE <<>>)
         \o CollectConfidentLines(Tail(result))

RECURSIVE CollectLines(_)
\* the loop "for item in result" that fills lines
CollectLines(result) ==
    IF Len(result) = 0 THEN <<>>
    ELSE (IF IsFragment(result[1]) THEN <<LineOf(result[1])>> ELSE <<>>)
         \o CollectLines(Tail(result))

RECURSIVE InsertByKey(_, _, _)
\* e placed after the elements whose key is not greater (a stable sort's step)
InsertByKey(sorted, e, f) ==
    IF Len(sorted) = 0 THEN <<e>>
    ELSE IF sorted[Len(sorted)][f] <= e[f] THEN Append(sorted, e)
    ELSE Append(InsertByKey(SubSeq(sorted, 1, Len(sorted) - 1), e, f), sorted[Len(sorted)])

\* a sort that leaves the list as it is
Unsorted(seq, f) == seq

RECURSIVE SortByKey(_, _)
\* list.sort(key=lambda l: l[f]) and sorted(..., key=...): stable
SortByKey(seq, f) ==
    IF Len(seq) = 0 THEN <<>>
    ELSE InsertByKey(SortByKey(SubSeq(seq, 1, Len(seq) - 1), f), seq[Len(seq)], f)

\* x_positions = sorted([line['x'] for line in lines])
XPositions(lines) == LET byX == SortByKey(lines, "x") IN [i \in 1..Len(byX) |-> byX[i].x]

\* a baseline that is always the smallest x
BaselineOfMinimum(lines) == XPositions(lines)[1]

\* "Smart baseline calculation"
Baseline(lines) ==
    LET x_positions == XPositions(lines)
    IN IF Len(x_positions) > 3
          /\ x_positions[2] - x_positions[1] > (x_positions[3] - x_positions[2]) * 2
       THEN x_positions[2]
       ELSE x_positions[1]

\* the typical monospace width for every image
CharWidthTypical(image_width) == 10

\* the tighter estimate of small regions for every image
CharWidthOfSmallRegion(image_width) == 6

\* char_width from the image width
CharWidth(image_width) ==
    IF image_width < 300 THEN 6 ELSE IF image_width < 600 THEN 8 ELSE 10

\* int(image.shape[0] * 0.05) is image_height \div 20 for every height >= 0
EstimatedLineHeight(image_height) == Max2(10, image_height \div 20)

\* a tolerance of the whole estimated line height
YToleranceOfLineHeight(image_height) == Max2(10, EstimatedLineHeight(image_height))

\* y_tolerance = max(10, estimated_line_height // 2)
YTolerance(image_height) == Max2(10, EstimatedLineHeight(image_height) \div 2)

AbsDiff(a, b) == IF a >= b THEN a - b ELSE b - a

RECURSIVE ClosestFrom(_, _, _, _, _, _)
\* the scan "for key in y_groups.keys()": the index of closest_key, 0 for None
ClosestFrom(groups, k, y, tol, best, min_diff) ==
    IF k > Len(groups) THEN best
    ELSE LET diff == AbsDiff(y, groups[k].key)
         IN IF (best = 0 \/ diff < min_diff) /\ diff <= tol
            THEN ClosestFrom(groups, k + 1, y, tol, k, diff)
            ELSE ClosestFrom(groups, k + 1, y, tol, best, min_diff)

ClosestKey(groups, y, tol) == ClosestFrom(groups, 1, y, tol, 0, 0)

\* an iteration that replaces the group of the closest key by the new line
OverwriteGroup(groups, line, tol) ==
    LET c == ClosestKey(groups, line.y, tol)
    IN IF c # 0
       THEN [groups EXCEPT ![c].items = <<line>>]
       ELSE Append(groups, [key |-> line.y, items |-> <<line>>])

\* an iteration that starts a new group for every line
AlwaysNewGroup(groups, line, tol) == Append(groups, [key |-> line.y, items |-> <<line>>])

\* one iteration of "for line in lines": y_groups in insertion order
AddToGroups(groups, line, tol) ==
    LET c == ClosestKey(groups, line.y, tol)
    IN IF c # 0
       THEN [groups EXCEPT ![c].items = Append(@, line)]
       ELSE Append(groups, [key |-> line.y, items |-> <<line>>])

RECURSIVE GroupFrom(_, _, _, _)
GroupFrom(groups, lines, i, tol) ==
    IF i > Len(lines) THEN groups
    ELSE GroupFrom(AddToGroups(groups, lines[i], tol), lines, i + 1, tol)

\* y_groups after the whole grouping loop over the sorted lines
GroupLines(lines, tol) == GroupFrom(<<>>, lines, 1, tol)

RECURSIVE SeqMin(_)
SeqMin(xs) == IF Len(xs) = 1 THEN xs[1] ELSE Min2(xs[1], SeqMin(Tail(xs)))

\* a clamp that resets the offset beyond a quarter of the width
ClampOffsetAtQuarter(x_offset, image_width) ==
    IF x_offset < 0 THEN 0
    ELSE IF 4 * x_offset > image_width THEN 0
    ELSE x_offset

\* x_offset after the clamp
ClampOffset(x_offset, image_width) ==
    IF x_offset < 0 THEN 0
    ELSE IF 2 * x_offset > image_width THEN 0
    ELSE x_offset

\* an indent_level without the cap of 5 levels
IndentLevelUncapped(x_offset, image_width) ==
    LET spaces_count == PyRoundDiv(ClampOffset(x_offset, image_width), CharWidth(image_width))
    IN Max2(0, PyRoundDiv(spaces_count, 4))

\* indent_level of a line whose leftmost fragment is x_offset pixels right of the baseline
IndentLevel(x_offset, image_width) ==
    LET spaces_count == PyRoundDiv(ClampOffset(x_offset, image_width), CharWidth(image_width))
    IN Max2(0, Min2(5, PyRoundDiv(spaces_count, 4)))

\* an indented_line whose fragments stay in the order of the group
StructuredLineUnsorted(group, min_x, image_width) ==
    LET merged_text == JoinWith([i \in 1..Len(group.items) |-> group.items[i].text], " ")
        min_x_in_group == SeqMin([i \in 1..Len(group.items) |-> group.items[i].x])
    IN Spaces(IndentLevel(min_x_in_group - min_x, image_width) * 4) \o merged_text

\* an indented_line indented by spaces_count, not normalized to indent units
StructuredLineRawSpaces(group, min_x, image_width) ==
    LET sorted == SortByKey(group.items, "x")
        merged_text == JoinWith([i \in 1..Len(sorted) |-> sorted[i].text], " ")
        min_x_in_group == SeqMin([i \in 1..Len(sorted) |-> sorted[i].x])
    IN Spaces(PyRoundDiv(ClampOffset(min_x_in_group - min_x, image_width),
                         CharWidth(image_width))) \o merged_text

\* indented_line of one group
StructuredLine(group, min_x, image_width) ==
    LET sorted == SortByKey(group.items, "x")
        merged_text == JoinWith([i \in 1..Len(sorted) |-> sorted[i].text], " ")
        min_x_in_group == SeqMin([i \in 1..Len(sorted) |-> sorted[i].x])
    IN Spaces(IndentLevel(min_x_in_group - min_x, image_width) * 4) \o merged_text

\* "for y_key in sorted(y_groups.keys())" and the join with newlines
StructuredText(groups, min_x, image_width) ==
    LET ordered == SortByKey(groups, "key")
    IN JoinWith([i \in 1..Len(ordered) |-> StructuredLine(ordered[i], min_x, image_width)], "\n")

\* the string built from the collected fragments, after both passes
ReconstructedText(collected, img) ==
    LET sorted == SortByKey(collected, "y")
        groups == GroupLines(sorted, YTolerance(img.h))
    IN NormalizeIndentation(
           FixPythonSyntax(StructuredText(groups, Baseline(sorted), img.w)))

\* the value _rapidocr_extract returns when self.ocr(image) returns result
RapidocrExtract(engine, result, img) ==
    IF engine = "none" \/ Len(result) = 0 \/ CollectRaises(result) THEN ""
    ELSE IF CollectLines(result) = <<>> THEN ""
    ELSE ReconstructedText(CollectLines(result), img)

(***************************************************************************)
(* The reconstruction as a state machine: one call of _rapidocr_extract on *)
(* an engine, step by step.                                                *)
(***************************************************************************)
VARIABLES
    ocr,              \* OCREngine.ocr: "ready", or "none" when _init_rapidocr failed
    pc,               \* the position of the call in _rapidocr_extract
    image,            \* [w, h]: image.shape[1] and image.shape[0]
    result,           \* what self.ocr(image) returns on this call
    lines,            \* the fragments collected from result
    min_x,            \* the baseline
    y_tolerance,
    y_groups,         \* the dict y_groups, as its entries in insertion order
    gi,               \* the index in lines of the grouping loop
    structured_text,
    raised,           \* the step whose exception the except clause caught, or "none"
    output,           \* the value returned
    \* the indentation of one line, taken alone (lines 229-244)
    quant_pc,
    quant_width,      \* image_width
    quant_baseline,   \* min_x
    quant_x,          \* min_x_in_group
    quant_level,      \* indent_level
    \* the trigger workflow (main.py, overlay.py)
    app_pc,           \* what the GUI thread is executing
    overlay,          \* OcrApplication.overlay: "none", "shown" or "closed"
    start_point,      \* SelectionOverlay.start_point
    end_point,        \* SelectionOverlay.end_point
    selecting,        \* SelectionOverlay.selecting
    region_emitted,   \* SelectionOverlay.region_emitted
    signals,          \* the signals the overlay has emitted, in order
    cancel_timer,     \* QTimer.singleShot(0, self.cancelled.emit) is pending
    quit_timer,       \* the delay of a pending singleShot(_, QApplication.quit), or 0
    region,           \* the argument of _on_overlay_region_selected
    screenshot_path,  \* what capture_screen returned, "" for None
    text,             \* what extract_text returned
    ocr_thread,       \* the thread that has run extract_text: "none", "gui", "worker"
    ocr_worker_thread,\* OcrApplication.ocr_worker_thread: "none", "running", "finished"
    wl_clipboard,     \* the Wayland clipboard, as wl-copy sets it
    qt_clipboard,     \* the Qt clipboard
    error_shown,      \* the message of the last _show_error, or ""
    copied,           \* how wl-copy ended and whether the Qt clipboard was tried
    nesting,          \* the handlers waiting inside QApplication.processEvents()
    \* PortalScreenshot.capture_screen
    cap_pc,           \* "idle", the place in capture_screen, or "returned"
    screenshot_tool,  \* PortalScreenshot.screenshot_tool, "none" for None
    temp_file,        \* the file at temp_path: "absent", "empty" or "image"
    returncode,       \* result.returncode of the screenshot tool
    captured,         \* what capture_screen returned: "", "None" or "path"
    captures,         \* the calls of capture_screen made so far
    restarts,         \* the calls of HotkeyDaemon.start() that found the daemon running
    \* the correction passes on their own: a text given to _fix_python_syntax
    \* (once, line by line, or repeatedly) or to _normalize_indentation
    fix_pc,           \* "idle", the place in the pass, or "fixed" once a pass changes nothing
    fix_input,        \* the text the passes started from
    fix_text,         \* the text after fix_passes passes
    fix_passes,       \* the number of passes made
    fix_i,            \* i of the while loop of _fix_python_syntax
    fix_line,         \* line of the while loop of _fix_python_syntax
    fixed_lines,      \* fixed_lines of _fix_python_syntax
    \* two successive calls of _rapidocr_extract on one engine
    calls,            \* how many calls have been made on the same input: 0, 1 or 2
    given,            \* the recognition result and the engine as the first call got them
    first_return,     \* what the first call returned, and what it caught
    \* the hotkey daemon (hotkey_daemon.py): the processes that run daemon_start
    \* and one that runs daemon_stop
    pid_file,         \* the pid in HotkeyDaemon.PID_FILE, 0 when the file does not exist
    alive,            \* alive[p]: /proc/p exists
    daemon_pc,        \* daemon_pc[p]: where process p is in daemon_start
    running,          \* running[p]: HotkeyDaemon.running in process p
    hotkey,           \* hotkey[p]: keyboard.add_hotkey has registered the hotkey of p
    signalled,        \* signalled[p]: a SIGTERM sent to p and not yet delivered
    exit_code,        \* exit_code[p]: what daemon_start returned in p
    stop_pc,          \* where the process that runs daemon_stop is
    stop_pid,         \* pid in daemon_stop, 0 for None
    stop_code         \* what daemon_stop returned

reconVars ==
    <<ocr, pc, image, result, lines, min_x, y_tolerance, y_groups, gi,
      structured_text, raised, output>>

quantVars == <<quant_pc, quant_width, quant_baseline, quant_x, quant_level>>

overlayVars == <<overlay, start_point, end_point, selecting, region_emitted, signals,
                 cancel_timer>>

appVars ==
    <<app_pc, overlayVars, quit_timer, region, screenshot_path, text, ocr_thread,
      ocr_worker_thread, wl_clipboard, qt_clipboard, error_shown, copied>>

fixVars == <<fix_pc, fix_input, fix_text, fix_passes, fix_i, fix_line, fixed_lines>>

\* the locals of the while loop of _fix_python_syntax
loopVars == <<fix_i, fix_line, fixed_lines>>

callVars == <<calls, given, first_return>>

nestVars == <<nesting>>

portalVars == <<cap_pc, screenshot_tool, temp_file, returncode, captured, captures>>

restartVars == <<restarts>>

daemonVars ==
    <<pid_file, alive, daemon_pc, running, hotkey, signalled, exit_code, stop_pc,
      stop_pid, stop_code>>

vars == <<reconVars, quantVars, appVars, fixVars, callVars, daemonVars, nestVars, portalVars, restartVars>>

\* what a step of the reconstruction leaves alone, what a step on one line
\* does, what a step of the trigger workflow does, and what a pass of the
\* correction does
NotRecon == <<quantVars, appVars, fixVars, callVars, daemonVars, nestVars, portalVars, restartVars>>
NotQuant == <<reconVars, appVars, fixVars, callVars, daemonVars, nestVars, portalVars, restartVars>>
NotApp == <<reconVars, quantVars, fixVars, callVars, daemonVars, nestVars, portalVars, restartVars>>
NotAppNorNesting == <<reconVars, quantVars, fixVars, callVars, daemonVars, portalVars, restartVars>>
NotPortal == <<reconVars, quantVars, appVars, fixVars, callVars, daemonVars, nestVars, restartVars>>
NotDaemonNorRestarts == <<reconVars, quantVars, appVars, fixVars, callVars, nestVars, portalVars>>
NotFix == <<reconVars, quantVars, appVars, callVars, daemonVars, nestVars, portalVars, restartVars>>
NotReconNorCalls == <<quantVars, appVars, fixVars, daemonVars, nestVars, portalVars, restartVars>>
NotDaemon == <<reconVars, quantVars, appVars, fixVars, callVars, nestVars, portalVars, restartVars>>

\* the recognition results explored: up to MaxFrags items of source text at the
\* corners Xs \X Ys, and up to MaxLayoutFrags items of one-letter text in one
\* column, with and without a confidence
MaxFrags == 2
MaxLayoutFrags == 3

Texts == {"def foo(self):", "return 1", "Setup init", "== 1"}
Xs == {40, 48, 80}
Ys == {10, 18, 30}
LayoutTexts == {"a", "b"}
LayoutXs == {40}
LayoutYs == {10, 18, 28}
Images == {[w |-> 640, h |-> 100], [w |-> 200, h |-> 500]}

\* a falsy item, an item of length 1, an item whose bbox is None
Malformed == {Item(0, <<>>, "", 0), Item(1, <<40, 10>>, "", 0), Item(2, <<>>, "return 1", 0)}

\* a fragment whose text is the empty string
EmptyTextItem == Item(3, <<40, 10>>, "", 90)

CodeItems ==
    {Item(3, <<x, y>>, t, 90) : x \in Xs, y \in Ys, t \in Texts}
    \cup Malformed \cup {EmptyTextItem}

LayoutItems ==
    {Item(3, <<x, y>>, t, 30) : x \in LayoutXs, y \in LayoutYs, t \in LayoutTexts}
    \cup {Item(2, <<x, y>>, t, 0) : x \in LayoutXs, y \in LayoutYs, t \in LayoutTexts}

Results ==
    UNION {[1..n -> CodeItems] : n \in 0..MaxFrags}
    \cup UNION {[1..n -> LayoutItems] : n \in 1..MaxLayoutFrags}

NoImage == [w |-> 0, h |-> 0]

QuantIdle ==
    /\ quant_pc = "idle"
    /\ quant_width = 0
    /\ quant_baseline = 0
    /\ quant_x = 0
    /\ quant_level = 0

NoPoint == [x |-> -1, y |-> -1]
NoRegion == <<0, 0, 0, 0>>

\* _copy_to_clipboard has not been called
NotCopied == [wl |-> "none", qt |-> "untried"]

\* OcrApplication.__init__, before trigger_ocr
AppIdle ==
    /\ app_pc = "start"
    /\ overlay = "none"
    /\ start_point = NoPoint
    /\ end_point = NoPoint
    /\ selecting = FALSE
    /\ region_emitted = FALSE
    /\ signals = <<>>
    /\ cancel_timer = FALSE
    /\ quit_timer = 0
    /\ region = NoRegion
    /\ screenshot_path = ""
    /\ text = ""
    /\ ocr_thread = "none"
    /\ ocr_worker_thread = "none"
    /\ wl_clipboard = "old"
    /\ qt_clipboard = "old"
    /\ error_shown = ""
    /\ copied = NotCopied

FixIdle ==
    /\ fix_pc = "idle"
    /\ fix_input = ""
    /\ fix_text = ""
    /\ fix_passes = 0
    /\ fix_i = 0
    /\ fix_line = ""
    /\ fixed_lines = <<>>

NoReturn == [output |-> "", raised |-> "none"]

CallsIdle ==
    /\ calls = 0
    /\ given = [result |-> <<>>, ocr |-> "none"]
    /\ first_return = NoReturn

\* the processes that may run daemon_start, by pid
Daemons == {1, 2}

\* no daemon has been started, and there is no PID file
NoDaemon ==
    /\ pid_file = 0
    /\ alive = [p \in Daemons |-> FALSE]
    /\ daemon_pc = [p \in Daemons |-> "none"]
    /\ running = [p \in Daemons |-> FALSE]
    /\ hotkey = [p \in Daemons |-> FALSE]
    /\ signalled = [p \in Daemons |-> FALSE]
    /\ exit_code = [p \in Daemons |-> -1]
    /\ stop_pc = "none"
    /\ stop_pid = 0
    /\ stop_code = -1

\* no PortalScreenshot has been made
NoCapture ==
    /\ cap_pc = "idle"
    /\ screenshot_tool = "none"
    /\ temp_file = "absent"
    /\ returncode = 0
    /\ captured = ""
    /\ captures = 0

Init ==
    /\ QuantIdle
    /\ AppIdle
    /\ FixIdle
    /\ CallsIdle
    /\ NoDaemon
    /\ nesting = 0
    /\ NoCapture
    /\ restarts = 0
    /\ ocr \in {"ready", "none"}
    /\ pc = "idle"
    /\ image = NoImage
    /\ result = <<>>
    /\ lines = <<>>
    /\ min_x = 0
    /\ y_tolerance = 0
    /\ y_groups = <<>>
    /\ gi = 0
    /\ structured_text = ""
    /\ raised = "none"
    /\ output = ""

\* the locals of a call that has not computed them yet
FreshLocals ==
    /\ lines' = <<>>
    /\ min_x' = 0
    /\ y_tolerance' = 0
    /\ y_groups' = <<>>
    /\ gi' = 0
    /\ structured_text' = ""
    /\ raised' = "none"
    /\ output' = ""

\* return value: the call ends
Returns(value) ==
    /\ output' = value
    /\ pc' = "done"

\* extract_text calls self._rapidocr_extract(preprocessed)
Call ==
    /\ pc = "idle"
    /\ \E r \in Results, img \in Images :
        /\ result' = r
        /\ image' = img
    /\ pc' = "recognize"
    /\ FreshLocals
    /\ UNCHANGED ocr
    /\ UNCHANGED NotRecon

\* "if self.ocr is None: return ''"
NotInitialized ==
    /\ pc = "recognize"
    /\ ocr = "none"
    /\ Returns("")
    /\ UNCHANGED <<ocr, image, result, lines, min_x, y_tolerance, y_groups, gi,
                   structured_text, raised>>
    /\ UNCHANGED NotRecon

\* self.ocr(image) raises: "except Exception as e: ... return ''"
OcrRaises ==
    /\ pc = "recognize"
    /\ ocr = "ready"
    /\ raised' = "recognition"
    /\ Returns("")
    /\ UNCHANGED <<ocr, image, result, lines, min_x, y_tolerance, y_groups, gi,
                   structured_text>>
    /\ UNCHANGED NotRecon

\* "if not result: return ''"
NoTextDetected ==
    /\ pc = "recognize"
    /\ ocr = "ready"
    /\ Len(result) = 0
    /\ Returns("")
    /\ UNCHANGED <<ocr, image, result, lines, min_x, y_tolerance, y_groups, gi,
                   structured_text, raised>>
    /\ UNCHANGED NotRecon

Recognized ==
    /\ pc = "recognize"
    /\ ocr = "ready"
    /\ Len(result) > 0
    /\ pc' = "collect"
    /\ UNCHANGED <<ocr, image, result, lines, min_x, y_tolerance, y_groups, gi,
                   structured_text, raised, output>>
    /\ UNCHANGED NotRecon

\* an except clause returning the error's text
CollectFailsWithMessage ==
    /\ pc = "collect"
    /\ CollectRaises(result)
    /\ raised' = "bbox"
    /\ Returns("Error: 'NoneType' object is not subscriptable")
    /\ UNCHANGED <<ocr, image, result, lines, min_x, y_tolerance, y_groups, gi,
                   structured_text>>
    /\ UNCHANGED NotRecon

\* the loop over result raises on a bbox that cannot be indexed
CollectFails ==
    /\ pc = "collect"
    /\ CollectRaises(result)
    /\ raised' = "bbox"
    /\ Returns("")
    /\ UNCHANGED <<ocr, image, result, lines, min_x, y_tolerance, y_groups, gi,
                   structured_text>>
    /\ UNCHANGED NotRecon

\* "if not lines" returning the message it prints
CollectNothingSaysSo ==
    /\ pc = "collect"
    /\ ~CollectRaises(result)
    /\ CollectLines(result) = <<>>
    /\ Returns("No text detected")
    /\ UNCHANGED <<ocr, image, result, lines, min_x, y_tolerance, y_groups, gi,
                   structured_text, raised>>
    /\ UNCHANGED NotRecon

\* "if not lines: return ''"
CollectNothing ==
    /\ pc = "collect"
    /\ ~CollectRaises(result)
    /\ CollectLines(result) = <<>>
    /\ Returns("")
    /\ UNCHANGED <<ocr, image, result, lines, min_x, y_tolerance, y_groups, gi,
                   structured_text, raised>>
    /\ UNCHANGED NotRecon

Collect ==
    /\ pc = "collect"
    /\ ~CollectRaises(result)
    /\ CollectLines(result) # <<>>
    /\ lines' = CollectLines(result)
    /\ pc' = "sort"
    /\ UNCHANGED <<ocr, image, result, min_x, y_tolerance, y_groups, gi,
                   structured_text, raised, output>>
    /\ UNCHANGED NotRecon

\* a sort that reorders the list of the caller as well
SortLinesAndResult ==
    /\ pc = "sort"
    /\ lines' = SortByKey(lines, "y")
    /\ result' = [i \in 1..Len(result) |-> result[Len(result) + 1 - i]]
    /\ min_x' = Baseline(lines)
    /\ y_tolerance' = YTolerance(image.h)
    /\ y_groups' = <<>>
    /\ gi' = 1
    /\ pc' = "group"
    /\ UNCHANGED <<ocr, image, structured_text, raised, output>>
    /\ UNCHANGED NotRecon

\* lines.sort(key=y), the baseline and the tolerance
SortLines ==
    /\ pc = "sort"
    /\ lines' = SortByKey(lines, "y")
    /\ min_x' = Baseline(lines)
    /\ y_tolerance' = YTolerance(image.h)
    /\ y_groups' = <<>>
    /\ gi' = 1
    /\ pc' = "group"
    /\ UNCHANGED <<ocr, image, result, structured_text, raised, output>>
    /\ UNCHANGED NotRecon

\* one iteration of "for line in lines"
GroupStep ==
    /\ pc = "group"
    /\ gi <= Len(lines)
    /\ y_groups' = AddToGroups(y_groups, lines[gi], y_tolerance)
    /\ gi' = gi + 1
    /\ UNCHANGED <<ocr, pc, image, result, lines, min_x, y_tolerance,
                   structured_text, raised, output>>
    /\ UNCHANGED NotRecon

\* "Build structured text with preserved indentation"
BuildText ==
    /\ pc = "group"
    /\ gi > Len(lines)
    /\ structured_text' = StructuredText(y_groups, min_x, image.w)
    /\ pc' = "fix"
    /\ UNCHANGED <<ocr, image, result, lines, min_x, y_tolerance, y_groups, gi,
                   raised, output>>
    /\ UNCHANGED NotRecon

FixSyntax ==
    /\ pc = "fix"
    /\ structured_text' = FixPythonSyntax(structured_text)
    /\ pc' = "normalize"
    /\ UNCHANGED <<ocr, image, result, lines, min_x, y_tolerance, y_groups, gi,
                   raised, output>>
    /\ UNCHANGED NotRecon

\* structured_text = self._normalize_indentation(...); return structured_text
Normalize ==
    /\ pc = "normalize"
    /\ structured_text' = NormalizeIndentation(structured_text)
    /\ Returns(structured_text')
    /\ UNCHANGED <<ocr, image, result, lines, min_x, y_tolerance, y_groups, gi, raised>>
    /\ UNCHANGED NotRecon

\* back in the caller: the locals of the call are gone
Return ==
    /\ pc = "done"
    /\ pc' = "idle"
    /\ image' = NoImage
    /\ result' = <<>>
    /\ FreshLocals
    /\ UNCHANGED ocr
    /\ UNCHANGED NotRecon

Next ==
    \/ Call
    \/ NotInitialized
    \/ OcrRaises
    \/ NoTextDetected
    \/ Recognized
    \/ CollectFails
    \/ CollectNothing
    \/ Collect
    \/ SortLines
    \/ GroupStep
    \/ BuildText
    \/ FixSyntax
    \/ Normalize
    \/ Return

Spec == Init /\ [][Next]_vars
(***************************************************************************)
(* Properties of a call of _rapidocr_extract.                              *)
(***************************************************************************)
\* the items of the result that are fragments, in the order of arrival
FragmentsOf(r) == SelectSeq(r, LAMBDA item : item.n >= 2)

\* the call has returned, from an initialised engine, without an exception
ReturnedNormally == pc = "done" /\ ocr = "ready" /\ raised = "none"

\* C1: for an empty recognition result (no item, or no item with at least a
\* bounding box and a text) _rapidocr_extract returns the empty string.
C1_EmptyResultGivesEmptyString ==
    (pc = "done" /\ \A i \in 1..Len(result) : result[i].n < 2) => output = ""

\* C1: a result that holds items, none of them a fragment
C1_Witness ==
    /\ ReturnedNormally
    /\ Len(result) > 0
    /\ \A i \in 1..Len(result) : result[i].n < 2

\* the orders of the fragments fs in which x never decreases
AscendingXOrders(fs) ==
    {p \in Permutations(1..Len(fs)) :
        \A i \in 1..(Len(fs) - 1) : fs[p[i]].box[1] <= fs[p[i + 1]].box[1]}

\* the texts of fs in the order p, joined by single spaces
JoinedInOrder(fs, p) == JoinWith([i \in 1..Len(fs) |-> fs[p[i]].text], " ")

\* the fragments lie within the tolerance of each other and no rule of the
\* correction pass changes the text of any of them
OneLineOfPlainTexts ==
    /\ ReturnedNormally
    /\ FragmentsOf(result) # <<>>
    /\ \A i, j \in 1..Len(result) :
        (result[i].n >= 2 /\ result[j].n >= 2)
            => AbsDiff(result[i].box[2], result[j].box[2]) <= y_tolerance
    /\ \A i \in 1..Len(result) :
        result[i].n >= 2 => FixPythonSyntax(result[i].text) = result[i].text

\* C2 as claimed: fragments whose y values lie within the tolerance of each
\* other and whose texts no correction rule matches give exactly one line,
\* their texts joined by single spaces in ascending x order.
C2_OneLineJoinedByX ==
    OneLineOfPlainTexts =>
        \E p \in AscendingXOrders(FragmentsOf(result)) :
            output = JoinedInOrder(FragmentsOf(result), p)

\* no rule of the correction pass changes the line the texts form once joined
JoinedLineIsPlain ==
    \A p \in AscendingXOrders(FragmentsOf(result)) :
        LET joined == JoinedInOrder(FragmentsOf(result), p)
        IN FixPythonSyntax(joined) = joined

\* C2 amended: fragments whose y values lie within the tolerance of each
\* other, and such that no correction rule matches their texts nor the line
\* they form once joined, give exactly that line: the texts joined by single
\* spaces in ascending x order.
C2_OneLineJoinedByXWhenJoinIsPlain ==
    (OneLineOfPlainTexts /\ JoinedLineIsPlain) =>
        \E p \in AscendingXOrders(FragmentsOf(result)) :
            output = JoinedInOrder(FragmentsOf(result), p)

\* C2: two fragments of one line that arrive right to left, at different y
C2_Witness ==
    /\ OneLineOfPlainTexts
    /\ JoinedLineIsPlain
    /\ Len(result) = 2
    /\ \A i \in 1..2 : result[i].n >= 2
    /\ result[1].box[1] > result[2].box[1]
    /\ result[1].box[2] < result[2].box[2]

\* the example of the specification: 'def foo(self):' at (40, 10) and
\* 'return 1' at (48, 30) in an image 640 wide and 100 high
IsExample ==
    /\ image = [w |-> 640, h |-> 100]
    /\ Len(result) = 2
    /\ result[1].n >= 2 /\ result[1].text = "def foo(self):" /\ result[1].box = <<40, 10>>
    /\ result[2].n >= 2 /\ result[2].text = "return 1" /\ result[2].box = <<48, 30>>

\* C5: on the example the fragments form two lines, the baseline is x = 40,
\* char_width is 10, the second line's indent level is 0 and the output is
\* 'def foo(self):', a newline, and 'return 1' with no leading space.
C5_Example ==
    (ReturnedNormally /\ IsExample) =>
        /\ Len(y_groups) = 2
        /\ min_x = 40
        /\ CharWidth(image.w) = 10
        /\ IndentLevel(48 - min_x, image.w) = 0
        /\ output = "def foo(self):\nreturn 1"

\* C5: the call on the example has returned
C5_Witness == ReturnedNormally /\ IsExample /\ Len(lines) = 2

RECURSIVE LeadingSpaces(_)
\* the number of spaces a line starts with
LeadingSpaces(line) ==
    IF line # "" /\ At(line, 1) = " " THEN 1 + LeadingSpaces(Tail(line)) ELSE 0

\* the lines of the returned string all start with 0, 4, 8, 12, 16 or 20 spaces
IndentedByLevels ==
    \A i \in 1..Len(SplitLines(output)) :
        LeadingSpaces(SplitLines(output)[i]) \in {0, 4, 8, 12, 16, 20}

\* C6 as claimed: for fragment texts that do not begin with whitespace, every
\* line of the string _rapidocr_extract returns starts with exactly 0, 4, 8,
\* 12, 16 or 20 spaces.
C6_LeadingSpacesAreIndentLevels ==
    (/\ pc = "done"
     /\ \A i \in 1..Len(result) :
         (IsFragment(result[i]) /\ result[i].text # "")
             => At(result[i].text, 1) \notin SpaceCh)
        => IndentedByLevels

\* C6 amended: for fragment texts that are not empty and do not begin with
\* whitespace, every line of the string _rapidocr_extract returns starts with
\* exactly 0, 4, 8, 12, 16 or 20 spaces (an empty text leaves the single
\* space of the join at the start of the line).
C6_LeadingSpacesAreIndentLevelsForNonEmptyTexts ==
    (/\ pc = "done"
     /\ \A i \in 1..Len(result) :
         IsFragment(result[i])
             => (result[i].text # "" /\ At(result[i].text, 1) \notin SpaceCh))
        => IndentedByLevels

\* C6: a line promoted to a docstring at indentation 0 that the
\* normalization pass has moved to the indentation of the code line after it
C6_Witness ==
    /\ pc = "done"
    /\ Len(y_groups) = 2
    /\ LeadingSpaces(SplitLines(structured_text)[2]) > 0
    /\ output = "        " \o TQ \o "Setup init" \o TQ \o "\n        return 1"

\* C7: _rapidocr_extract never propagates an exception: every call ends by
\* returning a string, and when the engine is uninitialised or a step
\* (recognition, the collection of the fragments) raises, it returns "".
C7_NoExceptionEscapes ==
    /\ pc = "done" => output \in STRING
    /\ raised # "none" => pc = "done"
    /\ (pc = "done" /\ (ocr = "none" \/ raised # "none")) => output = ""

\* C7: a result with a fragment whose bounding box cannot be read
C7_Witness ==
    /\ pc = "done"
    /\ raised = "bbox"
    /\ \E i \in 1..Len(result) : result[i].n >= 2 /\ result[i].box # <<>>

\* the result with every confidence removed
WithoutConfidence(r) ==
    [i \in 1..Len(r) |-> IF r[i].n > 2 THEN Item(2, r[i].box, r[i].text, 0) ELSE r[i]]

\* C9: the output does not depend on the confidences: a result and the same
\* result without its confidences (each then defaulted to 1.0) give the same
\* string.
C9_ConfidenceIsIgnored ==
    (pc = "done" /\ ocr = "ready" /\ raised # "recognition") =>
        output = RapidocrExtract(ocr, WithoutConfidence(result), image)

\* C9: fragments of low confidence beside one without a confidence
C9_Witness ==
    /\ ReturnedNormally
    /\ output # ""
    /\ \E i, j \in 1..Len(result) :
        /\ result[i].n = 3 /\ result[i].conf < 50
        /\ result[j].n = 2

\* the groups as a partition of the fragments: each group as the number of
\* times each fragment is in it
GroupBag(items) ==
    [e \in {items[i] : i \in 1..Len(items)} |->
        Cardinality({i \in 1..Len(items) : items[i] = e})]

PartitionOf(groups) == {GroupBag(groups[k].items) : k \in 1..Len(groups)}

\* r in the order p
Reordered(r, p) == [i \in 1..Len(r) |-> r[p[i]]]

\* the partition into line groups of the fragments of r
PartitionOfResult(r, tol) ==
    PartitionOf(GroupLines(SortByKey(CollectLines(r), "y"), tol))

\* C10 as claimed: there are two orderings of the same fragments (same image
\* size) that _rapidocr_extract partitions into line groups differently.
C10_GroupingDependsOnOrder ==
    \E r \in Results, img \in Images :
        /\ ~CollectRaises(r)
        /\ \E p \in Permutations(1..Len(r)) :
            PartitionOfResult(Reordered(r, p), YTolerance(img.h))
                # PartitionOfResult(r, YTolerance(img.h))

\* C10 amended: the grouping does not depend on the order of arrival: every
\* ordering of the same fragments (same image size) is partitioned into the
\* same line groups as the one that arrived.
C10_GroupingIgnoresOrder ==
    pc = "fix" =>
        \A p \in Permutations(1..Len(result)) :
            PartitionOfResult(Reordered(result, p), y_tolerance) = PartitionOf(y_groups)

\* C10: three fragments that arrive bottom first, in two groups, one of them
\* within the tolerance of a fragment of the other group
C10_Witness ==
    /\ pc = "fix"
    /\ Len(result) = 3
    /\ Len(lines) = 3
    /\ Len(y_groups) = 2
    /\ result[1].box[2] > result[2].box[2]
    /\ \E g, h \in 1..Len(y_groups) :
        /\ g # h
        /\ \E a \in 1..Len(y_groups[g].items), b \in 1..Len(y_groups[h].items) :
            AbsDiff(y_groups[g].items[a].y, y_groups[h].items[b].y) <= y_tolerance

\* the fragments of all the groups, group after group
RECURSIVE Grouped(_)
Grouped(groups) ==
    IF Len(groups) = 0 THEN <<>> ELSE groups[1].items \o Grouped(Tail(groups))

\* the place of group g among the output lines: one more than the number of
\* groups of a smaller key
Rank(groups, g) ==
    1 + Cardinality({h \in 1..Len(groups) : groups[h].key < groups[g].key})

\* line is some indentation followed by the texts of items, joined by single
\* spaces in an ascending order of x
JoinsByX(line, items) ==
    \E p \in Permutations(1..Len(items)) :
        /\ \A i \in 1..(Len(items) - 1) : items[p[i]].x <= items[p[i + 1]].x
        /\ \E n \in 0..20 :
            line = Spaces(n) \o JoinWith([i \in 1..Len(items) |-> items[p[i]].text], " ")

\* C16: the grouping is a partition at every step (each fragment handled so far
\* is in exactly one group, with as many copies as arrived, and no two groups
\* share a key, each keyed by the y of its first fragment); the text built from
\* the groups has one line per group, in ascending order of the group keys, and
\* each line is the texts of its group, each once, joined in x order.
C16_GroupingIsAPartition ==
    /\ pc \in {"group", "fix"} =>
        /\ GroupBag(Grouped(y_groups)) = GroupBag(SubSeq(lines, 1, gi - 1))
        /\ Len(Grouped(y_groups)) = gi - 1
        /\ \A g \in 1..Len(y_groups) :
            /\ Len(y_groups[g].items) >= 1
            /\ y_groups[g].key = y_groups[g].items[1].y
            /\ \A h \in 1..Len(y_groups) : y_groups[h].key = y_groups[g].key => h = g
    /\ pc = "fix" =>
        LET out == SplitLines(structured_text)
        IN /\ Len(out) = Len(y_groups)
           /\ \A g \in 1..Len(y_groups) :
                JoinsByX(out[Rank(y_groups, g)], y_groups[g].items)

\* C16: three fragments in two groups, one group of two fragments, built into
\* two lines
C16_Witness ==
    /\ pc = "fix"
    /\ gi = 4
    /\ Len(y_groups) = 2
    /\ \E g \in 1..2 : Len(y_groups[g].items) = 2
    /\ Len(SplitLines(structured_text)) = 2

\* the groups whose key is within the tolerance of y
KeysWithin(groups, y, tol) == {g \in 1..Len(groups) : AbsDiff(y, groups[g].key) <= tol}

\* the fragments handled so far whose y is in [key, key + tol]
InBand(key, tol) ==
    SelectSeq(SubSeq(lines, 1, gi - 1), LAMBDA l : key <= l.y /\ l.y <= key + tol)

\* C17: at every step of the grouping loop any two group keys differ by more
\* than the tolerance, the fragment handled next is within the tolerance of at
\* most one key, and each group holds exactly the fragments handled so far whose
\* y is in [key, key + tolerance], key being the y of the group's first fragment.
C17_KeysAreSeparated ==
    pc \in {"group", "fix"} =>
        /\ \A g, h \in 1..Len(y_groups) :
            g # h => AbsDiff(y_groups[g].key, y_groups[h].key) > y_tolerance
        /\ gi <= Len(lines) =>
            Cardinality(KeysWithin(y_groups, lines[gi].y, y_tolerance)) <= 1
        /\ \A g \in 1..Len(y_groups) :
            /\ y_groups[g].key = y_groups[g].items[1].y
            /\ GroupBag(y_groups[g].items) = GroupBag(InBand(y_groups[g].key, y_tolerance))

\* C17: the third fragment is within the tolerance of the second, which is in
\* the group of the first, but not of that group's key, and has started a group
C17_Witness ==
    /\ pc = "group"
    /\ gi = 4
    /\ Len(lines) = 3
    /\ Len(y_groups) = 2
    /\ Len(y_groups[1].items) = 2
    /\ lines[3].y - lines[2].y <= y_tolerance
    /\ lines[3].y - y_groups[1].key > y_tolerance
    /\ y_groups[2].key = lines[3].y

(***************************************************************************)
(* The indentation of one line (lines 229-244), for any image width,       *)
(* baseline and leftmost x of the line's group.                            *)
(***************************************************************************)
MaxPixel == 400

Widths == {200, 400, 640}
Baselines == {0, 40, 200}

PickLine ==
    /\ quant_pc = "idle"
    /\ quant_width' \in Widths
    /\ quant_baseline' \in Baselines
    /\ quant_x' \in 0..MaxPixel
    /\ quant_level' = 0
    /\ quant_pc' = "line"
    /\ UNCHANGED NotQuant

\* x_offset = min_x_in_group - min_x ... indent_level = max(0, min(5, ...))
Quantize ==
    /\ quant_pc = "line"
    /\ quant_level' = IndentLevel(quant_x - quant_baseline, quant_width)
    /\ quant_pc' = "done"
    /\ UNCHANGED <<quant_width, quant_baseline, quant_x>>
    /\ UNCHANGED NotQuant

NextLine ==
    /\ quant_pc = "done"
    /\ quant_pc' = "idle"
    /\ quant_width' = 0
    /\ quant_baseline' = 0
    /\ quant_x' = 0
    /\ quant_level' = 0
    /\ UNCHANGED NotQuant

NextIndent == PickLine \/ Quantize \/ NextLine

SpecIndent == Init /\ [][NextIndent]_vars

\* the pixel offset of the line from the baseline, before the clamp
QuantOffset == quant_x - quant_baseline

\* C3: for every image width, baseline and x, the indentation level computed
\* for a line is an integer in 0..5, however large or negative the offset.
C3_IndentLevelInRange ==
    quant_pc = "done" => quant_level \in 0..5

\* C3: a line far enough right for the unclamped level to exceed 5
C3_Witness ==
    /\ quant_pc = "done"
    /\ quant_level = 5
    /\ PyRoundDiv(PyRoundDiv(QuantOffset, CharWidth(quant_width)), 4) > 5
    /\ 2 * QuantOffset <= quant_width

Points == {[x |-> 0, y |-> 0], [x |-> 8, y |-> 40], [x |-> 30, y |-> 5], [x |-> 50, y |-> 60]}

\* what extract_text may return
AppTexts == {"", "  ", "a", "a\n    b"}

\* how the wl-copy subprocess may end
WlOutcomes == {"ok", "nonzero", "timeout", "missing", "raises"}

\* mouseReleaseEvent's self.close() once the handler of region_selected has
\* returned; closeEvent emits nothing, region_emitted being True
HandlerReturns ==
    /\ overlay' = "closed"
    /\ app_pc' = "loop"
    /\ UNCHANGED <<start_point, end_point, selecting, region_emitted, signals, cancel_timer>>

\* trigger_ocr: the overlay is shown, then app.exec()
TriggerOcr ==
    /\ app_pc = "start"
    /\ overlay' = "shown"
    /\ app_pc' = "loop"
    /\ UNCHANGED <<start_point, end_point, selecting, region_emitted, signals, cancel_timer,
                   quit_timer, region, screenshot_path, text, ocr_thread,
                   ocr_worker_thread, wl_clipboard, qt_clipboard, error_shown>>
    /\ UNCHANGED copied
    /\ UNCHANGED NotApp

\* trigger_ocr: showing the overlay raises
TriggerOcrFails ==
    /\ app_pc = "start"
    /\ error_shown' = "Failed to show selection overlay"
    /\ app_pc' = "loop"
    /\ UNCHANGED <<overlayVars, quit_timer, region, screenshot_path, text, ocr_thread,
                   ocr_worker_thread, wl_clipboard, qt_clipboard>>
    /\ UNCHANGED copied
    /\ UNCHANGED NotApp

\* mousePressEvent with the left button
MousePress ==
    /\ app_pc = "loop"
    /\ overlay = "shown"
    /\ \E p \in Points :
        /\ start_point' = p
        /\ end_point' = p
    /\ selecting' = TRUE
    /\ UNCHANGED <<app_pc, overlay, region_emitted, signals, cancel_timer, quit_timer,
                   region, screenshot_path, text, ocr_thread, ocr_worker_thread,
                   wl_clipboard, qt_clipboard, error_shown>>
    /\ UNCHANGED copied
    /\ UNCHANGED NotApp

\* mouseMoveEvent
MouseMove ==
    /\ app_pc = "loop"
    /\ overlay = "shown"
    /\ selecting
    /\ end_point' \in Points
    /\ UNCHANGED <<app_pc, overlay, start_point, selecting, region_emitted, signals,
                   cancel_timer, quit_timer, region, screenshot_path, text, ocr_thread,
                   ocr_worker_thread, wl_clipboard, qt_clipboard, error_shown>>
    /\ UNCHANGED copied
    /\ UNCHANGED NotApp

\* the rectangle (x1, y1, width, height) between two points
RegionOf(p, q) ==
    <<Min2(p.x, q.x), Min2(p.y, q.y),
      Max2(p.x, q.x) - Min2(p.x, q.x), Max2(p.y, q.y) - Min2(p.y, q.y)>>

\* "if width > 10 and height > 10"
Meaningful(r) == r[3] > 10 /\ r[4] > 10

\* mouseReleaseEvent over a rectangle of meaningful size: region_selected is
\* emitted and its slot _on_overlay_region_selected runs up to capture_screen
MouseReleaseSelects ==
    /\ app_pc = "loop"
    /\ overlay = "shown"
    /\ selecting
    /\ Meaningful(RegionOf(start_point, end_point))
    /\ selecting' = FALSE
    /\ region_emitted' = TRUE
    /\ signals' = Append(signals, "region_selected")
    /\ region' = RegionOf(start_point, end_point)
    /\ app_pc' = "capture"
    /\ UNCHANGED <<overlay, start_point, end_point, cancel_timer, quit_timer,
                   screenshot_path, text, ocr_thread, ocr_worker_thread, wl_clipboard,
                   qt_clipboard, error_shown>>
    /\ UNCHANGED copied
    /\ UNCHANGED NotApp

\* mouseReleaseEvent over a smaller rectangle: the overlay closes, and
\* closeEvent schedules cancelled
MouseReleaseTooSmall ==
    /\ app_pc = "loop"
    /\ overlay = "shown"
    /\ selecting
    /\ ~Meaningful(RegionOf(start_point, end_point))
    /\ selecting' = FALSE
    /\ overlay' = "closed"
    /\ cancel_timer' = ~region_emitted
    /\ UNCHANGED <<app_pc, start_point, end_point, region_emitted, signals, quit_timer,
                   region, screenshot_path, text, ocr_thread, ocr_worker_thread,
                   wl_clipboard, qt_clipboard, error_shown>>
    /\ UNCHANGED copied
    /\ UNCHANGED NotApp

\* keyPressEvent with Escape: close(), and closeEvent schedules cancelled
KeyEscape ==
    /\ app_pc = "loop"
    /\ overlay = "shown"
    /\ overlay' = "closed"
    /\ cancel_timer' = ~region_emitted
    /\ UNCHANGED <<app_pc, start_point, end_point, selecting, region_emitted, signals,
                   quit_timer, region, screenshot_path, text, ocr_thread,
                   ocr_worker_thread, wl_clipboard, qt_clipboard, error_shown>>
    /\ UNCHANGED copied
    /\ UNCHANGED NotApp

\* the timer of closeEvent fires: cancelled is emitted and its slot
\* _on_overlay_cancelled schedules the quit
CancelledFires ==
    /\ app_pc = "loop"
    /\ cancel_timer
    /\ cancel_timer' = FALSE
    /\ signals' = Append(signals, "cancelled")
    /\ quit_timer' = 100
    /\ UNCHANGED <<app_pc, overlay, start_point, end_point, selecting, region_emitted,
                   region, screenshot_path, text, ocr_thread, ocr_worker_thread,
                   wl_clipboard, qt_clipboard, error_shown>>
    /\ UNCHANGED copied
    /\ UNCHANGED NotApp

\* self.portal.capture_screen() returns a path
CaptureScreen ==
    /\ app_pc = "capture"
    /\ screenshot_path' = "/tmp/screenshot.png"
    /\ app_pc' = "extract"
    /\ UNCHANGED <<overlayVars, quit_timer, region, text, ocr_thread, ocr_worker_thread,
                   wl_clipboard, qt_clipboard, error_shown>>
    /\ UNCHANGED copied
    /\ UNCHANGED NotApp

\* capture_screen returns None: "if not screenshot_path: ... return"
CaptureFails ==
    /\ app_pc = "capture"
    /\ error_shown' = "Failed to capture screenshot."
    /\ HandlerReturns
    /\ UNCHANGED <<quit_timer, region, screenshot_path, text, ocr_thread,
                   ocr_worker_thread, wl_clipboard, qt_clipboard>>
    /\ UNCHANGED copied
    /\ UNCHANGED NotApp

\* a handler that hands extract_text to the worker thread of _process_ocr
\* and goes on when the worker has finished
ExtractTextOnWorker ==
    /\ app_pc = "extract"
    /\ text' \in AppTexts
    /\ ocr_thread' = "worker"
    /\ ocr_worker_thread' = "finished"
    /\ IF Strip(text') # ""
       THEN /\ app_pc' = "copy"
            /\ UNCHANGED <<overlayVars, quit_timer>>
       ELSE /\ quit_timer' = 500
            /\ HandlerReturns
    /\ UNCHANGED <<region, screenshot_path, wl_clipboard, qt_clipboard, error_shown>>
    /\ UNCHANGED copied
    /\ UNCHANGED NotApp

\* a handler that copies whatever extract_text returned
ExtractTextThenCopy ==
    /\ app_pc = "extract"
    /\ text' \in AppTexts
    /\ ocr_thread' = "gui"
    /\ app_pc' = "copy"
    /\ UNCHANGED <<overlayVars, quit_timer>>
    /\ UNCHANGED <<region, screenshot_path, ocr_worker_thread, wl_clipboard,
                   qt_clipboard, error_shown>>
    /\ UNCHANGED copied
    /\ UNCHANGED NotApp

\* "text = self.ocr_engine.extract_text(screenshot_path, region)", called by
\* the handler itself; without text the handler schedules the quit and returns
ExtractText ==
    /\ app_pc = "extract"
    /\ text' \in AppTexts
    /\ ocr_thread' = "gui"
    /\ IF Strip(text') # ""
       THEN /\ app_pc' = "copy"
            /\ UNCHANGED <<overlayVars, quit_timer>>
       ELSE /\ quit_timer' = 500
            /\ HandlerReturns
    /\ UNCHANGED <<region, screenshot_path, ocr_worker_thread, wl_clipboard,
                   qt_clipboard, error_shown>>
    /\ UNCHANGED copied
    /\ UNCHANGED NotApp

\* extract_text raises: the except clause of the handler
ExtractRaises ==
    /\ app_pc = "extract"
    /\ ocr_thread' = "gui"
    /\ error_shown' = "Unexpected error"
    /\ quit_timer' = 100
    /\ HandlerReturns
    /\ UNCHANGED <<region, screenshot_path, text, ocr_worker_thread, wl_clipboard,
                   qt_clipboard>>
    /\ UNCHANGED copied
    /\ UNCHANGED NotApp

\* the Qt clipboard is the fallback of wl-copy
UsesQt(wl) == wl \in {"nonzero", "missing", "raises"}

\* a _copy_to_clipboard that takes any exit of wl-copy for a success
CopyToClipboardAnyExit ==
    /\ app_pc = "copy"
    /\ \E wl \in WlOutcomes, qt_ok \in BOOLEAN :
        \/ /\ wl = "ok"
           /\ wl_clipboard' = text
           /\ copied' = [wl |-> wl, qt |-> "untried"]
           /\ UNCHANGED qt_clipboard
        \/ /\ wl = "timeout"
           /\ wl_clipboard' \in {text, wl_clipboard}
           /\ copied' = [wl |-> wl, qt |-> "untried"]
           /\ UNCHANGED qt_clipboard
        \/ /\ wl = "nonzero"
           /\ copied' = [wl |-> wl, qt |-> "untried"]
           /\ UNCHANGED <<wl_clipboard, qt_clipboard>>
        \/ /\ wl \in {"missing", "raises"}
           /\ qt_clipboard' = IF qt_ok THEN text ELSE qt_clipboard
           /\ copied' = [wl |-> wl, qt |-> IF qt_ok THEN "ok" ELSE "fails"]
           /\ UNCHANGED wl_clipboard
    /\ quit_timer' = 500
    /\ HandlerReturns
    /\ UNCHANGED <<region, screenshot_path, text, ocr_thread, ocr_worker_thread,
                   error_shown>>
    /\ UNCHANGED NotApp

\* _copy_to_clipboard(text), then the quit is scheduled and the handler returns
CopyToClipboard ==
    /\ app_pc = "copy"
    /\ \E wl \in WlOutcomes, qt_ok \in BOOLEAN :
        \/ /\ wl = "ok"
           /\ wl_clipboard' = text
           /\ copied' = [wl |-> wl, qt |-> "untried"]
           /\ UNCHANGED qt_clipboard
        \/ /\ wl = "timeout"
           /\ wl_clipboard' \in {text, wl_clipboard}
           /\ copied' = [wl |-> wl, qt |-> "untried"]
           /\ UNCHANGED qt_clipboard
        \/ /\ UsesQt(wl)
           /\ qt_clipboard' = IF qt_ok THEN text ELSE qt_clipboard
           /\ copied' = [wl |-> wl, qt |-> IF qt_ok THEN "ok" ELSE "fails"]
           /\ UNCHANGED wl_clipboard
    /\ quit_timer' = 500
    /\ HandlerReturns
    /\ UNCHANGED <<region, screenshot_path, text, ocr_thread, ocr_worker_thread,
                   error_shown>>
    /\ UNCHANGED NotApp

\* the quit timer fires: app.exec() returns and main_gui_trigger runs
\* app.cleanup(), which sets the engine's ocr to None
QuitFires ==
    /\ app_pc = "loop"
    /\ quit_timer > 0
    /\ quit_timer' = 0
    /\ app_pc' = "exited"
    /\ ocr' = "none"
    /\ UNCHANGED <<overlayVars, region, screenshot_path, text, ocr_thread,
                   ocr_worker_thread, wl_clipboard, qt_clipboard, error_shown, copied>>
    /\ UNCHANGED <<pc, image, result, lines, min_x, y_tolerance, y_groups, gi,
                   structured_text, raised, output, quantVars, fixVars, callVars,
                   daemonVars, nestVars, portalVars, restartVars>>

NextApp ==
    \/ TriggerOcr
    \/ TriggerOcrFails
    \/ MousePress
    \/ MouseMove
    \/ MouseReleaseSelects
    \/ MouseReleaseTooSmall
    \/ KeyEscape
    \/ CancelledFires
    \/ CaptureScreen
    \/ CaptureFails
    \/ ExtractText
    \/ ExtractRaises
    \/ CopyToClipboard
    \/ QuitFires

SpecApp == Init /\ [][NextApp]_vars

\* the clipboard holds something the workflow has written
ClipboardWritten == wl_clipboard # "old" \/ qt_clipboard # "old"

\* C8 as claimed: recognition plus reconstruction for the selected region
\* runs on a background worker thread, not on the GUI thread, and the
\* clipboard is written only once that worker thread has finished.
C8_ExtractionOnWorkerThread ==
    /\ ocr_thread \in {"none", "worker"}
    /\ ClipboardWritten => ocr_worker_thread = "finished"

\* C8 amended: recognition plus reconstruction for the selected region runs
\* on the GUI thread, inside the handler of region_selected, and no worker
\* thread is ever started; the clipboard is written only once extract_text
\* has returned, and with the text it returned.
C8_ExtractionOnGuiThread ==
    /\ ocr_thread \in {"none", "gui"}
    /\ ocr_worker_thread = "none"
    /\ ClipboardWritten =>
        /\ ocr_thread = "gui"
        /\ app_pc \in {"loop", "exited"}
        /\ Strip(text) # ""
        /\ wl_clipboard \in {"old", text}
        /\ qt_clipboard \in {"old", text}

\* C8: the text of a selected region has been copied and the quit is pending
C8_Witness ==
    /\ app_pc = "loop"
    /\ "region_selected" \in {signals[i] : i \in 1..Len(signals)}
    /\ ocr_thread = "gui"
    /\ wl_clipboard = "a\n    b"
    /\ quit_timer = 500

\* C26: when extract_text returns an empty or whitespace-only string the
\* handler goes back to the event loop without calling _copy_to_clipboard:
\* wl-copy is not run and the Qt clipboard is not set; and the clipboard is
\* only ever written by _copy_to_clipboard with a text that has a
\* non-whitespace character.
C26_NoTextNoClipboardWrite ==
    [][/\ (app_pc = "extract" /\ Strip(text') = "") =>
            /\ app_pc' = "loop"
            /\ UNCHANGED <<wl_clipboard, qt_clipboard, copied>>
       /\ <<wl_clipboard, qt_clipboard, copied>>' # <<wl_clipboard, qt_clipboard, copied>> =>
            /\ app_pc = "copy"
            /\ Strip(text) # ""]_vars

\* C26: extract_text has returned two spaces and the quit is pending
C26_Witness ==
    /\ app_pc = "loop"
    /\ ocr_thread = "gui"
    /\ text = "  "
    /\ quit_timer = 500
    /\ wl_clipboard = "old"
    /\ qt_clipboard = "old"
    /\ copied = NotCopied

\* C28: on every path of a triggered workflow the quit gets scheduled: the
\* event loop never has nothing left to dispatch (no overlay on screen, no
\* emission of cancelled pending) without a pending QApplication.quit.
C28_QuitIsScheduledOnEveryPath ==
    (app_pc = "loop" /\ overlay # "shown" /\ ~cancel_timer) => quit_timer > 0


(***************************************************************************)
(* The trigger workflow with the event processing of _copy_to_clipboard:   *)
(* after clipboard.setText the Qt fallback calls                           *)
(* QApplication.processEvents() (main.py line 291), which dispatches the   *)
(* events that are pending, inside the handler of region_selected and      *)
(* before mouseReleaseEvent has reached self.close().  app_pc = "loop"     *)
(* with nesting > 0 is the dispatching of processEvents.                   *)
(***************************************************************************)
MaxNesting == 1

\* _copy_to_clipboard(text) with the processEvents() of its Qt fallback
CopyAndProcessEvents ==
    /\ app_pc = "copy"
    /\ \E wl \in WlOutcomes, qt_ok \in BOOLEAN :
        \/ /\ wl = "ok"
           /\ wl_clipboard' = text
           /\ copied' = [wl |-> wl, qt |-> "untried"]
           /\ quit_timer' = 500
           /\ HandlerReturns
           /\ UNCHANGED <<qt_clipboard, nesting>>
        \/ /\ wl = "timeout"
           /\ wl_clipboard' \in {text, wl_clipboard}
           /\ copied' = [wl |-> wl, qt |-> "untried"]
           /\ quit_timer' = 500
           /\ HandlerReturns
           /\ UNCHANGED <<qt_clipboard, nesting>>
        \/ /\ UsesQt(wl)
           /\ ~qt_ok
           /\ copied' = [wl |-> wl, qt |-> "fails"]
           /\ quit_timer' = 500
           /\ HandlerReturns
           /\ UNCHANGED <<wl_clipboard, qt_clipboard, nesting>>
        \/ /\ UsesQt(wl)
           /\ qt_ok
           /\ qt_clipboard' = text
           /\ copied' = [wl |-> wl, qt |-> "ok"]
           /\ UNCHANGED wl_clipboard
           /\ IF nesting < MaxNesting
              THEN /\ app_pc' = "loop"
                   /\ nesting' = nesting + 1
                   /\ UNCHANGED <<overlayVars, quit_timer>>
              ELSE /\ quit_timer' = 500
                   /\ HandlerReturns
                   /\ UNCHANGED nesting
    /\ UNCHANGED <<region, screenshot_path, text, ocr_thread, ocr_worker_thread,
                   error_shown>>
    /\ UNCHANGED NotAppNorNesting

\* processEvents() returns: the handler schedules the quit and returns, and
\* mouseReleaseEvent closes the overlay
ProcessEventsReturns ==
    /\ app_pc = "loop"
    /\ nesting > 0
    /\ nesting' = nesting - 1
    /\ quit_timer' = 500
    /\ HandlerReturns
    /\ UNCHANGED <<region, screenshot_path, text, ocr_thread, ocr_worker_thread,
                   wl_clipboard, qt_clipboard, error_shown, copied>>
    /\ UNCHANGED NotAppNorNesting

\* app.exec() returns once the quit timer fires in the event loop itself
QuitAtTopLevel == nesting = 0 /\ QuitFires

NextOverlay ==
    \/ TriggerOcr
    \/ TriggerOcrFails
    \/ MousePress
    \/ MouseMove
    \/ MouseReleaseSelects
    \/ MouseReleaseTooSmall
    \/ KeyEscape
    \/ CancelledFires
    \/ CaptureScreen
    \/ CaptureFails
    \/ ExtractText
    \/ ExtractRaises
    \/ CopyAndProcessEvents
    \/ ProcessEventsReturns
    \/ QuitAtTopLevel

SpecOverlay == Init /\ [][NextOverlay]_vars

\* how many times a signal has been emitted
Emitted(name) == Cardinality({i \in 1..Len(signals) : signals[i] = name})

\* C27: region_selected is emitted at most once, with a rectangle more than 10
\* wide and high, and cancelled at most once and never together with it; once
\* the overlay is closed and no emission is pending, exactly one of the two
\* has been emitted.
C27_ExactlyOneSignalPerSession ==
    /\ Emitted("region_selected") <= 1
    /\ Emitted("cancelled") <= 1
    /\ Emitted("region_selected") + Emitted("cancelled") <= 1
    /\ Emitted("region_selected") > 0 => (region_emitted /\ Meaningful(region))
    /\ (overlay = "closed" /\ app_pc \in {"loop", "exited"} /\ ~cancel_timer) =>
            Emitted("region_selected") + Emitted("cancelled") = 1


(***************************************************************************)
(* _fix_python_syntax applied again and again to its own output.           *)
(***************************************************************************)
\* the pieces the texts are made of, and the longest text in pieces
FixTokens == <<"a", ".", TQ, "self">>
MaxFixTokens == 4

\* texts of two lines, the second one code before or after a pass
TwoLineTexts == {"hello world\nselfx y", "Setup init\nreturn 1", "a.\n" \o TQ}

RECURSIVE Concat(_)
Concat(parts) == IF Len(parts) = 0 THEN "" ELSE Head(parts) \o Concat(Tail(parts))

TextsOfLength(n) ==
    {Concat([i \in 1..n |-> FixTokens[f[i]]]) : f \in [1..n -> 1..Len(FixTokens)]}

FixCorpus == UNION {TextsOfLength(n) : n \in 0..MaxFixTokens} \cup TwoLineTexts

PickText ==
    /\ fix_pc = "idle"
    /\ fix_input' \in FixCorpus
    /\ fix_text' = fix_input'
    /\ fix_passes' = 0
    /\ fix_pc' = "passing"
    /\ UNCHANGED loopVars
    /\ UNCHANGED NotFix

\* one more call of _fix_python_syntax, on what the last one returned
FixPass ==
    /\ fix_pc = "passing"
    /\ fix_passes <= Len(fix_input)
    /\ FixPythonSyntax(fix_text) # fix_text
    /\ fix_text' = FixPythonSyntax(fix_text)
    /\ fix_passes' = fix_passes + 1
    /\ UNCHANGED <<fix_pc, fix_input>>
    /\ UNCHANGED loopVars
    /\ UNCHANGED NotFix

\* the call returns its argument: a fixed point
FixedPoint ==
    /\ fix_pc = "passing"
    /\ FixPythonSyntax(fix_text) = fix_text
    /\ fix_pc' = "fixed"
    /\ UNCHANGED <<fix_input, fix_text, fix_passes>>
    /\ UNCHANGED loopVars
    /\ UNCHANGED NotFix

NextText ==
    /\ fix_pc = "fixed"
    /\ fix_pc' = "idle"
    /\ fix_input' = ""
    /\ fix_text' = ""
    /\ fix_passes' = 0
    /\ UNCHANGED loopVars
    /\ UNCHANGED NotFix

NextFix == PickText \/ FixPass \/ FixedPoint \/ NextText

SpecFix == Init /\ [][NextFix]_vars


\* a text that the second pass still changes
TwiceChanged == "a.." \o TQ

\* C11: _fix_python_syntax is not idempotent (the second pass over TwiceChanged
\* changes what the first one returned), but repeated application reaches a
\* fixed point after a bounded number of passes: never more passes than the
\* text it started from has characters.
C11_FixedPointAfterBoundedPasses ==
    /\ fix_passes <= Len(fix_input)
    /\ FixPythonSyntax(FixPythonSyntax(TwiceChanged)) # FixPythonSyntax(TwiceChanged)

\* C11: a fixed point reached by a second pass that still changed the text
C11_Witness ==
    /\ fix_pc = "fixed"
    /\ fix_passes = 2
    /\ fix_input = TwiceChanged
    /\ fix_text = "a" \o TQ


(***************************************************************************)
(* Two successive calls of _rapidocr_extract on the same engine, with the  *)
(* same recognition result and image.                                      *)
(***************************************************************************)
MaxRepeatFrags == 2

RepeatResults ==
    UNION {[1..n -> CodeItems] : n \in 0..(MaxRepeatFrags - 1)}
    \cup UNION {[1..n -> LayoutItems] : n \in 1..MaxRepeatFrags}

\* the first call
CallFirst ==
    /\ pc = "idle"
    /\ \E r \in RepeatResults, img \in Images :
        /\ result' = r
        /\ image' = img
        /\ given' = [result |-> r, ocr |-> ocr]
    /\ calls' = 1
    /\ first_return' = NoReturn
    /\ pc' = "recognize"
    /\ FreshLocals
    /\ UNCHANGED ocr
    /\ UNCHANGED NotReconNorCalls

\* the first call has returned; the caller calls again with what it holds
CallAgain ==
    /\ pc = "done"
    /\ calls = 1
    /\ first_return' = [output |-> output, raised |-> raised]
    /\ calls' = 2
    /\ pc' = "recognize"
    /\ FreshLocals
    /\ UNCHANGED <<ocr, image, result, given>>
    /\ UNCHANGED NotReconNorCalls

\* both calls have returned
ReturnBoth ==
    /\ pc = "done"
    /\ calls = 2
    /\ pc' = "idle"
    /\ image' = NoImage
    /\ result' = <<>>
    /\ FreshLocals
    /\ calls' = 0
    /\ given' = [result |-> <<>>, ocr |-> "none"]
    /\ first_return' = NoReturn
    /\ UNCHANGED ocr
    /\ UNCHANGED NotReconNorCalls

NextRepeat ==
    \/ CallFirst
    \/ CallAgain
    \/ ReturnBoth
    \/ NotInitialized
    \/ OcrRaises
    \/ NoTextDetected
    \/ Recognized
    \/ CollectFails
    \/ CollectNothing
    \/ Collect
    \/ SortLines
    \/ GroupStep
    \/ BuildText
    \/ FixSyntax
    \/ Normalize

SpecRepeat == Init /\ [][NextRepeat]_vars

\* C12: a reconstruction call changes no fragment of the recognition result
\* and no attribute of the engine, and two successive calls on the same
\* engine with the same recognition result and image size return equal
\* strings (when recognition itself succeeds both times).
C12_CallIsPure ==
    /\ calls > 0 => (result = given.result /\ ocr = given.ocr)
    /\ (/\ pc = "done"
        /\ calls = 2
        /\ raised # "recognition"
        /\ first_return.raised # "recognition")
            => output = first_return.output

\* C12: the second call has returned a text of two lines
C12_Witness ==
    /\ pc = "done"
    /\ calls = 2
    /\ ocr = "ready"
    /\ raised = "none"
    /\ first_return.raised = "none"
    /\ Len(y_groups) = 2
    /\ result[1].box[2] > result[2].box[2]
    /\ output # ""


\* C13: _copy_to_clipboard falls back to the Qt clipboard whenever wl-copy is
\* missing, raises or exits with a non-zero code, and never writes the Qt
\* clipboard when wl-copy exits 0 or its wait times out.
C13_QtClipboardIsTheFallback ==
    /\ copied.wl \in {"missing", "raises", "nonzero"} => copied.qt # "untried"
    /\ copied.wl \in {"none", "ok", "timeout"} =>
        (copied.qt = "untried" /\ qt_clipboard = "old")
    /\ qt_clipboard # "old" => (copied.qt = "ok" /\ qt_clipboard = text)

\* C13: wl-copy has exited with a non-zero code and the Qt clipboard holds the text
C13_Witness ==
    /\ copied = [wl |-> "nonzero", qt |-> "ok"]
    /\ qt_clipboard = "a"
    /\ wl_clipboard = "old"


(***************************************************************************)
(* The vertical tolerance (lines 194-195) for every image height: calls    *)
(* with two fragments in one column, gap pixels apart, in an image of any  *)
(* height up to MaxHeight.                                                 *)
(***************************************************************************)
MaxHeight == 520
MaxGap == 14

\* two fragments in one column, the second gap pixels below the first
TwoAt(gap) == <<Item(3, <<40, 0>>, "a", 90), Item(3, <<40, gap>>, "b", 90)>>

\* _rapidocr_extract is called with an image of some height
CallAtHeight ==
    /\ pc = "idle"
    /\ \E h \in 0..MaxHeight, gap \in 0..MaxGap :
        /\ result' = TwoAt(gap)
        /\ image' = [w |-> 640, h |-> h]
    /\ pc' = "recognize"
    /\ FreshLocals
    /\ UNCHANGED ocr
    /\ UNCHANGED NotRecon

NextHeights ==
    \/ CallAtHeight
    \/ NotInitialized
    \/ OcrRaises
    \/ Recognized
    \/ Collect
    \/ SortLines
    \/ GroupStep
    \/ BuildText
    \/ FixSyntax
    \/ Normalize
    \/ Return

SpecHeights == Init /\ [][NextHeights]_vars

\* d <= max(10, image_height * 0.05 / 2) for an integer d, without fractions
WithinFormula(d, image_height) == d <= 10 \/ 40 * d <= image_height

\* C18: for every image height, an integer distance is within the y_tolerance
\* the code computes exactly when it is at most max(10, image_height * 0.05 / 2),
\* and two fragments are put in one group exactly when their y values are
\* within that formula's tolerance.
C18_ToleranceIsTheFormula ==
    (pc \in {"group", "fix", "normalize", "done"} /\ Len(lines) = 2) =>
        /\ \A d \in 0..(MaxGap + 1) : d <= y_tolerance <=> WithinFormula(d, image.h)
        /\ gi = 3 =>
            (Len(y_groups) = 1 <=> WithinFormula(lines[2].y - lines[1].y, image.h))

\* C18: in an image 500 pixels high, where the formula gives 12.5 and the code
\* 12, two fragments 12 pixels apart are in one group
C18_Witness ==
    /\ pc = "fix"
    /\ image.h = 500
    /\ y_tolerance = 12
    /\ lines[2].y - lines[1].y = 12
    /\ Len(y_groups) = 1

(***************************************************************************)
(* The baseline (lines 163-176): calls with up to MaxBaselineFrags         *)
(* fragments on two visual lines, enough for "len(x_positions) > 3".       *)
(***************************************************************************)
MaxBaselineFrags == 4

BaselineXs == {40, 60, 70}
BaselineYs == {10, 30}

BaselineResults ==
    UNION {[1..n -> {Item(3, <<x, y>>, "a", 90) : x \in BaselineXs, y \in BaselineYs}] :
           n \in 1..MaxBaselineFrags}

\* _rapidocr_extract is called with fragments spread over two visual lines
CallWithColumns ==
    /\ pc = "idle"
    /\ \E r \in BaselineResults :
        /\ result' = r
        /\ image' = [w |-> 640, h |-> 100]
    /\ pc' = "recognize"
    /\ FreshLocals
    /\ UNCHANGED ocr
    /\ UNCHANGED NotRecon

NextBaseline ==
    \/ CallWithColumns
    \/ NotInitialized
    \/ OcrRaises
    \/ Recognized
    \/ Collect
    \/ SortLines
    \/ GroupStep
    \/ BuildText
    \/ FixSyntax
    \/ Normalize
    \/ Return

SpecBaseline == Init /\ [][NextBaseline]_vars

\* the n-th smallest of the numbers xs[1], ..., xs[Len(xs)], repeats counted
NthSmallest(xs, n) ==
    CHOOSE v \in {xs[i] : i \in 1..Len(xs)} :
        /\ Cardinality({i \in 1..Len(xs) : xs[i] < v}) < n
        /\ Cardinality({i \in 1..Len(xs) : xs[i] <= v}) >= n

\* the rule of the baseline over the numbers xs: the smallest, or the second
\* smallest when there are more than 3 and the first gap is more than double
\* the second
StrayRule(xs) ==
    IF Len(xs) > 3
       /\ NthSmallest(xs, 2) - NthSmallest(xs, 1)
            > 2 * (NthSmallest(xs, 3) - NthSmallest(xs, 2))
    THEN NthSmallest(xs, 2)
    ELSE NthSmallest(xs, 1)

\* the x of every fragment
FragmentXs == [i \in 1..Len(lines) |-> lines[i].x]

\* the smallest x of every line group
LineXs ==
    [g \in 1..Len(y_groups) |->
        SeqMin([i \in 1..Len(y_groups[g].items) |-> y_groups[g].items[i].x])]

\* C19 as claimed: the baseline is the smallest of the lines' minimum x, or the
\* second smallest of them when there are more than 3 lines and the first gap
\* is more than double the second.
C19_BaselineOverLines ==
    pc = "fix" => min_x = StrayRule(LineXs)

\* C19 amended: the rule is applied to the x of the fragments, not of the line
\* groups: the baseline is the smallest fragment x, or the second smallest when
\* there are more than 3 fragments and the first gap is more than double the
\* second.
C19_BaselineOverFragments ==
    (pc \in {"group", "fix", "normalize", "done"} /\ Len(lines) > 0) =>
        min_x = StrayRule(FragmentXs)

\* C19: four fragments on two lines, the leftmost taken for a stray: the
\* baseline is the second smallest fragment x, right of the left edge of a line
C19_Witness ==
    /\ pc = "fix"
    /\ Len(lines) = 4
    /\ Len(y_groups) = 2
    /\ min_x = 60
    /\ \E g \in 1..2 : LineXs[g] = 40

(***************************************************************************)
(* The indentation of the lines built (lines 182-248): calls with one      *)
(* fragment on the first line, at any x up to MaxPixel, and three at       *)
(* x = 200 on the second, in images of widths around the char_width        *)
(* buckets.                                                                *)
(***************************************************************************)
LineWidths == {200, 299, 300, 599, 600, 640}

\* the texts of the first fragment of each line: plain, beginning with a
\* space, empty
FirstTexts == {<<"a", "b">>, <<" a", "b">>, <<"a", "">>}

\* a fragment at x on the first line and three fragments at 200 on the second
OneAndThree(x, t) ==
    <<Item(3, <<x, 10>>, t[1], 90), Item(3, <<200, 30>>, t[2], 90),
      Item(3, <<200, 30>>, "c", 90), Item(3, <<200, 30>>, "d", 90)>>

\* _rapidocr_extract is called with an image of some width
CallAtWidth ==
    /\ pc = "idle"
    /\ \E x \in 0..MaxPixel, t \in FirstTexts, w \in LineWidths :
        /\ result' = OneAndThree(x, t)
        /\ image' = [w |-> w, h |-> 100]
    /\ pc' = "recognize"
    /\ FreshLocals
    /\ UNCHANGED ocr
    /\ UNCHANGED NotRecon

NextWidths ==
    \/ CallAtWidth
    \/ NotInitialized
    \/ OcrRaises
    \/ Recognized
    \/ Collect
    \/ SortLines
    \/ GroupStep
    \/ BuildText
    \/ FixSyntax
    \/ Normalize
    \/ Return

SpecWidths == Init /\ [][NextWidths]_vars

\* round(a / b) for a >= 0 and b > 0: the nearest integer, the even one of two
\* equally near
HalfEven(a, b) ==
    CHOOSE n \in 0..(a + 1) :
        /\ 2 * AbsDiff(n * b, a) <= b
        /\ 2 * AbsDiff(n * b, a) = b => n % 2 = 0

\* 4 * clamp(round(round(offset / char_width) / 4), 0, 5) as the claim gives it
ClaimedSpaces(x_offset, image_width) ==
    LET offset == IF x_offset < 0 \/ 2 * x_offset > image_width THEN 0 ELSE x_offset
        char_width == IF image_width < 300 THEN 6 ELSE IF image_width < 600 THEN 8 ELSE 10
        level == HalfEven(HalfEven(offset, char_width), 4)
    IN 4 * (IF level > 5 THEN 5 ELSE level)

\* the text of the leftmost fragment of group g is not empty and does not begin
\* with whitespace
StartsPlain(g) ==
    \E i \in 1..Len(y_groups[g].items) :
        /\ \A j \in 1..Len(y_groups[g].items) :
            /\ y_groups[g].items[i].x <= y_groups[g].items[j].x
            /\ y_groups[g].items[j].x = y_groups[g].items[i].x => i <= j
        /\ y_groups[g].items[i].text # ""
        /\ At(y_groups[g].items[i].text, 1) \notin SpaceCh

\* the number of leading spaces of the line built for group g
BuiltSpaces(g) == LeadingSpaces(SplitLines(structured_text)[Rank(y_groups, g)])

\* C20 as claimed: every line built, before the correction passes, starts with
\* exactly 4 * clamp(round(round(offset / char_width) / 4), 0, 5) spaces.
C20_LeadingSpacesAreTheFormula ==
    pc = "fix" =>
        \A g \in 1..Len(y_groups) :
            BuiltSpaces(g) = ClaimedSpaces(LineXs[g] - min_x, image.w)

\* C20 amended: every line built whose leftmost fragment has a text that is not
\* empty and does not begin with whitespace starts, before the correction
\* passes, with exactly 4 * clamp(round(round(offset / char_width) / 4), 0, 5)
\* spaces, round being Python's (halves to the even integer).
C20_LeadingSpacesAreTheFormulaForPlainTexts ==
    pc = "fix" =>
        \A g \in 1..Len(y_groups) :
            StartsPlain(g) => BuiltSpaces(g) = ClaimedSpaces(LineXs[g] - min_x, image.w)

\* C20: a line 100 pixels right of the baseline in an image 640 wide: 10
\* characters, 2.5 levels, rounded to 2 levels, 8 spaces
C20_Witness ==
    /\ pc = "fix"
    /\ image.w = 640
    /\ min_x = 200
    /\ Len(y_groups) = 2
    /\ LineXs[1] = 300
    /\ StartsPlain(1)
    /\ BuiltSpaces(1) = 8

\* char_width as the buckets give it
BucketWidth(image_width) ==
    IF image_width < 300 THEN 6 ELSE IF image_width < 600 THEN 8 ELSE 10

\* the line built for group g is exactly k indent units of characters right of
\* the baseline
ExactIndent(g, k) == LineXs[g] - min_x = 4 * k * BucketWidth(image.w)

\* C21 as claimed: for every image width and every k in 0..5, a line exactly
\* 4 * k * char_width pixels right of the baseline is built with 4 * k leading
\* spaces.
C21_ExactIndentsAreKept ==
    pc = "fix" =>
        \A g \in 1..Len(y_groups), k \in 0..5 :
            ExactIndent(g, k) => BuiltSpaces(g) = 4 * k

\* C21 amended: the same, for the lines whose offset of 4 * k * char_width is at
\* most half the image width and whose leftmost fragment has a text that is not
\* empty and does not begin with whitespace.
C21_ExactIndentsAreKeptUpToHalfWidth ==
    pc = "fix" =>
        \A g \in 1..Len(y_groups), k \in 0..5 :
            (/\ ExactIndent(g, k)
             /\ 2 * (LineXs[g] - min_x) <= image.w
             /\ StartsPlain(g))
                => BuiltSpaces(g) = 4 * k

\* C21: a line 5 * 4 * 10 pixels right of the baseline in an image 640 wide is
\* built with 20 leading spaces
C21_Witness ==
    /\ pc = "fix"
    /\ image.w = 640
    /\ Len(y_groups) = 2
    /\ ExactIndent(1, 5)
    /\ StartsPlain(1)
    /\ BuiltSpaces(1) = 20

(***************************************************************************)
(* _normalize_indentation on its own (lines 387-422), over texts of up to  *)
(* MaxNormLines lines: docstring lines, blank lines and code lines at      *)
(* several indentations.                                                   *)
(***************************************************************************)
MaxNormLines == 4

DocLines ==
    {"", "   ", TQ \o "doc" \o TQ, "  " \o TQ \o "doc" \o TQ \o " ", "    x = 1", "x = 1",
     "\tpass"}

NormCorpus ==
    UNION {{JoinWith(f, "\n") : f \in [1..n -> DocLines]} : n \in 1..MaxNormLines}

\* a text is given to _normalize_indentation
PickLines ==
    /\ fix_pc = "idle"
    /\ fix_input' \in NormCorpus
    /\ fix_text' = fix_input'
    /\ fix_passes' = 0
    /\ fix_pc' = "normalizing"
    /\ UNCHANGED loopVars
    /\ UNCHANGED NotFix

\* _normalize_indentation returns
NormalizePass ==
    /\ fix_pc = "normalizing"
    /\ fix_text' = NormalizeIndentation(fix_text)
    /\ fix_passes' = 1
    /\ fix_pc' = "normalized"
    /\ UNCHANGED fix_input
    /\ UNCHANGED loopVars
    /\ UNCHANGED NotFix

NextLines ==
    /\ fix_pc = "normalized"
    /\ fix_pc' = "idle"
    /\ fix_input' = ""
    /\ fix_text' = ""
    /\ fix_passes' = 0
    /\ UNCHANGED loopVars
    /\ UNCHANGED NotFix

NextNormalize == PickLines \/ NormalizePass \/ NextLines

SpecNormalize == Init /\ [][NextNormalize]_vars

\* line j is not blank and has no triple-quote marker
IsPlainCode(line) == Strip(line) # "" /\ ~Contains(line, TQ)

\* among the 2 lines after line i, the first that is not blank and has no
\* triple-quote marker; 0 when there is none
FirstCodeWithin2(in, i) ==
    IF i + 1 <= Len(in) /\ IsPlainCode(in[i + 1]) THEN i + 1
    ELSE IF i + 2 <= Len(in) /\ IsPlainCode(in[i + 2]) THEN i + 2
    ELSE 0

\* out is line re-indented to exactly n spaces
ReindentedTo(out, line, n) == out = Spaces(n) \o Strip(line)

MaxPassLines == 2

PassLines ==
    {"hello world", "hello", "hello!", "importos", "import os", "x = 1", "self.run",
     "    indented doc", "\tTabbed doc", "say " \o DQ \o "hi" \o DQ \o " now"}

\* lines of 99 and of 100 characters before a code line, and a line before a
\* line that only has a bracket
TenChars == "aaaaaaaaaa"
Line99 ==
    TenChars \o TenChars \o TenChars \o TenChars \o TenChars \o TenChars \o TenChars
    \o TenChars \o TenChars \o "aaaaaaaaa"
LongTexts == {Line99 \o "\nx = 1", Line99 \o "a\nx = 1", "hello world\nx[0]"}

PassCorpus ==
    UNION {{JoinWith(f, "\n") : f \in [1..n -> PassLines]} : n \in 1..MaxPassLines}
    \cup LongTexts

\* _fix_python_syntax(text): lines = text.split('\n'), fixed_lines = [], i = 0
PickSource ==
    /\ fix_pc = "idle"
    /\ fix_input' \in PassCorpus
    /\ fix_text' = ""
    /\ fix_passes' = 0
    /\ fix_i' = 0
    /\ fix_line' = ""
    /\ fixed_lines' = <<>>
    /\ fix_pc' = "loop"
    /\ UNCHANGED NotFix

\* "while i < len(lines)": the docstring promotion of lines[i]
PromoteStep ==
    /\ fix_pc = "loop"
    /\ fix_i < Len(SplitLines(fix_input))
    /\ fix_line' = PromoteLine(SplitLines(fix_input), fix_i + 1)
    /\ fix_pc' = "rewrite"
    /\ UNCHANGED <<fix_input, fix_text, fix_passes, fix_i, fixed_lines>>
    /\ UNCHANGED NotFix

\* the substitutions, fixed_lines.append(line) and i += 1
RewriteStep ==
    /\ fix_pc = "rewrite"
    /\ fix_line' = RewriteLine(fix_line)
    /\ fixed_lines' = Append(fixed_lines, fix_line')
    /\ fix_i' = fix_i + 1
    /\ fix_pc' = "loop"
    /\ UNCHANGED <<fix_input, fix_text, fix_passes>>
    /\ UNCHANGED NotFix

\* the loop ends: return '\n'.join(fixed_lines)
JoinFixed ==
    /\ fix_pc = "loop"
    /\ fix_i >= Len(SplitLines(fix_input))
    /\ fix_text' = JoinWith(fixed_lines, "\n")
    /\ fix_passes' = 1
    /\ fix_pc' = "returned"
    /\ UNCHANGED <<fix_input, fix_i, fix_line, fixed_lines>>
    /\ UNCHANGED NotFix

NextSource ==
    /\ fix_pc = "returned"
    /\ fix_pc' = "idle"
    /\ fix_input' = ""
    /\ fix_text' = ""
    /\ fix_passes' = 0
    /\ fix_i' = 0
    /\ fix_line' = ""
    /\ fixed_lines' = <<>>
    /\ UNCHANGED NotFix

NextPass == PickSource \/ PromoteStep \/ RewriteStep \/ JoinFixed \/ NextSource

SpecPass == Init /\ [][NextPass]_vars

\* str has one of the markers
HasAny(str, markers) == \E x \in markers : Contains(str, x)

\* the text starts like an import statement, whatever the case of its letters
StartsLikeImport(str) ==
    StartsWith(LowerOf(str), "import ") \/ StartsWith(LowerOf(str), "from ")

\* the input line the loop is at, at "rewrite"
InputLine == SplitLines(fix_input)[fix_i + 1]

\* C23: a line is wrapped in triple quotes only if it is not an import line, has
\* none of the code markers of line 294, has a stripped length strictly between
\* 5 and 100, has no double quote, and is followed by an input line that has
\* one of the code markers of line 303; the wrapped line is the stripped line
\* in triple quotes after as many spaces as the line had leading whitespace
\* characters; the last line is never wrapped.
C23_WrappedOnlyIfDocstringBeforeCode ==
    (fix_pc = "rewrite" /\ fix_line # InputLine) =>
        /\ ~StartsLikeImport(Strip(InputLine))
        /\ ~HasAny(Strip(InputLine),
                   {"def ", "class ", "=", "(", ")", "[", "]", "{", "}", "if ", "for ",
                    "while ", "return "})
        /\ Len(Strip(InputLine)) > 5
        /\ Len(Strip(InputLine)) < 100
        /\ ~Contains(InputLine, DQ)
        /\ fix_i + 2 <= Len(SplitLines(fix_input))
        /\ HasAny(Strip(SplitLines(fix_input)[fix_i + 2]),
                  {"def ", "class ", "=", "(", ")", "self.", "return ", "for ", "if "})
        /\ fix_line = Spaces(LeadingWs(InputLine)) \o TQ \o Strip(InputLine) \o TQ
        /\ LeadingWs(fix_line) = LeadingWs(InputLine)

\* C23: a wrapped line keeps the leading whitespace of the original line,
\* character for character.
C23_WrappedKeepsLeadingWhitespace ==
    (fix_pc = "rewrite" /\ fix_line # InputLine) =>
        SubSeq(fix_line, 1, LeadingWs(InputLine)) = SubSeq(InputLine, 1, LeadingWs(InputLine))

\* C23: an indented line of text before a code line has been wrapped
C23_Witness ==
    /\ fix_pc = "rewrite"
    /\ fix_input = "    indented doc\nx = 1"
    /\ fix_i = 0
    /\ fix_line = "    " \o TQ \o "indented doc" \o TQ

\* the output line is an import statement enclosed in triple quotes
QuotedImport(out) ==
    /\ StartsWith(Strip(out), TQ)
    /\ StartsLikeImport(SubSeq(Strip(out), 4, Len(Strip(out))))

\* C24: no line that had no triple quotes in the input is output as an import
\* statement enclosed in triple quotes, a line whose missing space after
\* import or from is repaired by the same pass included.
C24_ImportsAreNeverWrapped ==
    fix_pc = "returned" =>
        \A i \in 1..Len(fixed_lines) :
            ~Contains(SplitLines(fix_input)[i], TQ) => ~QuotedImport(fixed_lines[i])

\* C25: every iteration of the loop appends exactly one line, the fixed form of
\* the input line at i, and advances i by one, i never passes the number of
\* input lines, so the loop ends after as many iterations as there are lines;
\* the text returned has as many lines as the input.
C25_OneLineOutPerLineIn ==
    /\ [](fix_pc \in {"loop", "rewrite"} =>
            /\ Len(fixed_lines) = fix_i
            /\ fix_i <= Len(SplitLines(fix_input))
            /\ fix_pc = "rewrite" => fix_i < Len(SplitLines(fix_input)))
    /\ [](fix_pc = "returned" =>
            /\ fix_i = Len(SplitLines(fix_input))
            /\ Len(fixed_lines) = fix_i
            /\ Len(SplitLines(fix_text)) = Len(SplitLines(fix_input))
            /\ fix_text = FixPythonSyntax(fix_input))
    /\ [][/\ fix_pc = "loop" => (fix_pc' \in {"rewrite", "returned"} /\ fix_i' = fix_i)
          /\ fix_pc = "rewrite" =>
                /\ fix_pc' = "loop"
                /\ fix_i' = fix_i + 1
                /\ fixed_lines' =
                       Append(fixed_lines, FixLine(SplitLines(fix_input), fix_i'))]_vars

\* C25: a text of two lines, both rewritten, has come back as two lines
C25_Witness ==
    /\ fix_pc = "returned"
    /\ fix_input = "importos\nself.run"
    /\ fix_i = 2
    /\ fix_text = TQ \o "import os" \o TQ \o "\nself.run"

(***************************************************************************)
(* PortalScreenshot.capture_screen (portal.py lines 53-108): the temporary *)
(* file it creates, the screenshot tool it runs, and what it returns.      *)
(***************************************************************************)
MaxCaptures == 3

\* the list of _find_screenshot_tool
ScreenshotTools == {"gnome-screenshot", "spectacle", "flameshot", "scrot"}

\* PortalScreenshot(): the first tool that `which` finds, or None
FindScreenshotTool ==
    /\ cap_pc = "idle"
    /\ captures = 0
    /\ screenshot_tool' \in ScreenshotTools \cup {"none"}
    /\ cap_pc' = "ready"
    /\ UNCHANGED <<temp_file, returncode, captured, captures>>
    /\ UNCHANGED NotPortal

\* capture_screen() is called
CaptureCalled ==
    /\ cap_pc = "ready"
    /\ captures < MaxCaptures
    /\ captures' = captures + 1
    /\ temp_file' = "absent"
    /\ returncode' = 0
    /\ captured' = ""
    /\ cap_pc' = "called"
    /\ UNCHANGED screenshot_tool
    /\ UNCHANGED NotPortal

\* "if not self.is_available(): return None"
NotAvailable ==
    /\ cap_pc = "called"
    /\ screenshot_tool = "none"
    /\ captured' = "None"
    /\ cap_pc' = "returned"
    /\ UNCHANGED <<screenshot_tool, temp_file, returncode, captures>>
    /\ UNCHANGED NotPortal

\* tempfile.NamedTemporaryFile(suffix='.png', delete=False, ...) and close()
CreateTempFile ==
    /\ cap_pc = "called"
    /\ screenshot_tool # "none"
    /\ temp_file' = "empty"
    /\ cap_pc' = "run"
    /\ UNCHANGED <<screenshot_tool, returncode, captured, captures>>
    /\ UNCHANGED NotPortal

\* NamedTemporaryFile raises: "except Exception: return None"
CreateTempFileRaises ==
    /\ cap_pc = "called"
    /\ screenshot_tool # "none"
    /\ captured' = "None"
    /\ cap_pc' = "returned"
    /\ UNCHANGED <<screenshot_tool, temp_file, returncode, captures>>
    /\ UNCHANGED NotPortal

\* subprocess.run([tool, ..., temp_path], timeout=5) returns: the tool has
\* exited with some code, having written, left or removed the file
ToolExits ==
    /\ cap_pc = "run"
    /\ returncode' \in {0, 1}
    /\ temp_file' \in {"image", "empty", "absent"}
    /\ cap_pc' = "check"
    /\ UNCHANGED <<screenshot_tool, captured, captures>>
    /\ UNCHANGED NotPortal

\* subprocess.run raises (TimeoutExpired after 5 seconds, or the tool cannot
\* be started): "except Exception: return None"
ToolRaises ==
    /\ cap_pc = "run"
    /\ temp_file' \in {temp_file, "image"}
    /\ captured' = "None"
    /\ cap_pc' = "returned"
    /\ UNCHANGED <<screenshot_tool, returncode, captures>>
    /\ UNCHANGED NotPortal

\* "if result.returncode == 0 and os.path.exists(temp_path): return temp_path",
\* else os.unlink(temp_path), whose exception is passed over, and return None
CheckResult ==
    /\ cap_pc = "check"
    /\ IF returncode = 0 /\ temp_file # "absent"
       THEN /\ captured' = "path"
            /\ UNCHANGED temp_file
       ELSE /\ captured' = "None"
            /\ temp_file' = "absent"
    /\ cap_pc' = "returned"
    /\ UNCHANGED <<screenshot_tool, returncode, captures>>
    /\ UNCHANGED NotPortal

\* the caller goes on, and may call capture_screen again
NextCapture ==
    /\ cap_pc = "returned"
    /\ cap_pc' = "ready"
    /\ UNCHANGED <<screenshot_tool, temp_file, returncode, captured, captures>>
    /\ UNCHANGED NotPortal

NextPortal ==
    \/ FindScreenshotTool
    \/ CaptureCalled
    \/ NotAvailable
    \/ CreateTempFile
    \/ CreateTempFileRaises
    \/ ToolExits
    \/ ToolRaises
    \/ CheckResult
    \/ NextCapture

SpecPortal == Init /\ [][NextPortal]_vars

\* C30: whenever capture_screen has returned None the temporary file of that
\* call is not on disk, and it has returned a path only when the tool exited 0
\* and the file exists.
C30_NoTempFileLeftOnFailure ==
    cap_pc = "returned" =>
        /\ captured = "None" => temp_file = "absent"
        /\ captured = "path" => (returncode = 0 /\ temp_file # "absent")


\* ---------------------------------------------------------------------------
\* The hotkey daemon: daemon_start and daemon_stop of hotkey_daemon.py, run by
\* separate processes that share the PID file.
\* ---------------------------------------------------------------------------

\* HotkeyDaemon.get_running_daemon_pid: the pid it returns, 0 for None
GetRunningDaemonPid == IF pid_file # 0 /\ alive[pid_file] THEN pid_file ELSE 0

\* HotkeyDaemon.get_running_daemon_pid: the PID file it leaves, a stale one unlinked
StaleRemoved == IF pid_file # 0 /\ ~alive[pid_file] THEN 0 ELSE pid_file

\* HotkeyDaemon.is_daemon_running
IsDaemonRunning == GetRunningDaemonPid # 0

\* the handlers of HotkeyDaemon.__init__ are installed in process p
HandlesSignals(p) == daemon_pc[p] \in {"start", "register", "wait"}

\* process p ends and daemon_start has returned code there
Exits(p, code) ==
    /\ alive' = [alive EXCEPT ![p] = FALSE]
    /\ daemon_pc' = [daemon_pc EXCEPT ![p] = "exited"]
    /\ hotkey' = [hotkey EXCEPT ![p] = FALSE]
    /\ signalled' = [signalled EXCEPT ![p] = FALSE]
    /\ exit_code' = [exit_code EXCEPT ![p] = code]

\* a process is spawned to run daemon_start
DaemonStart(p) ==
    /\ daemon_pc[p] = "none"
    /\ alive' = [alive EXCEPT ![p] = TRUE]
    /\ daemon_pc' = [daemon_pc EXCEPT ![p] = "check"]
    /\ UNCHANGED <<pid_file, running, hotkey, signalled, exit_code, stop_pc, stop_pid,
                   stop_code>>
    /\ UNCHANGED NotDaemon

\* daemon_start: a daemon is running, return 1
AlreadyRunning(p) ==
    /\ daemon_pc[p] = "check"
    /\ IsDaemonRunning
    /\ Exits(p, 1)
    /\ UNCHANGED <<pid_file, running, stop_pc, stop_pid, stop_code>>
    /\ UNCHANGED NotDaemon

\* daemon_start: no daemon is running; HotkeyDaemon.__init__ installs the handlers
NotRunning(p) ==
    /\ daemon_pc[p] = "check"
    /\ ~IsDaemonRunning
    /\ pid_file' = StaleRemoved
    /\ daemon_pc' = [daemon_pc EXCEPT ![p] = "start"]
    /\ UNCHANGED <<alive, running, hotkey, signalled, exit_code, stop_pc, stop_pid,
                   stop_code>>
    /\ UNCHANGED NotDaemon

\* HotkeyDaemon.start: _save_pid writes the pid of the process
SavePid(p) ==
    /\ daemon_pc[p] = "start"
    /\ ~running[p]
    /\ pid_file' = p
    /\ daemon_pc' = [daemon_pc EXCEPT ![p] = "register"]
    /\ UNCHANGED <<alive, running, hotkey, signalled, exit_code, stop_pc, stop_pid,
                   stop_code>>
    /\ UNCHANGED NotDaemon

\* HotkeyDaemon.start: _register_hotkey succeeds, the daemon is running and
\* HotkeyDaemon.run blocks in keyboard.wait
RegisterHotkey(p) ==
    /\ daemon_pc[p] = "register"
    /\ hotkey' = [hotkey EXCEPT ![p] = TRUE]
    /\ running' = [running EXCEPT ![p] = TRUE]
    /\ daemon_pc' = [daemon_pc EXCEPT ![p] = "wait"]
    /\ UNCHANGED <<pid_file, alive, signalled, exit_code, stop_pc, stop_pid, stop_code>>
    /\ UNCHANGED NotDaemon

\* a start() that returns False without _remove_pid
RegisterFailsKeepsPid(p) ==
    /\ daemon_pc[p] = "register"
    /\ Exits(p, 1)
    /\ UNCHANGED <<pid_file, running, stop_pc, stop_pid, stop_code>>
    /\ UNCHANGED NotDaemon

\* HotkeyDaemon.start: _register_hotkey fails, _remove_pid unlinks the PID file and
\* HotkeyDaemon.run returns 1
RegisterFails(p) ==
    /\ daemon_pc[p] = "register"
    /\ pid_file' = 0
    /\ Exits(p, 1)
    /\ UNCHANGED <<running, stop_pc, stop_pid, stop_code>>
    /\ UNCHANGED NotDaemon

\* the calls of start() on a running daemon that are followed
MaxRestarts == 1

\* HotkeyDaemon.start on a daemon that is running: "if self.running: return True"
StartAgain(p) ==
    /\ alive[p]
    /\ daemon_pc[p] = "wait"
    /\ running[p]
    /\ restarts < MaxRestarts
    /\ restarts' = restarts + 1
    /\ UNCHANGED daemonVars
    /\ UNCHANGED NotDaemonNorRestarts

\* HotkeyDaemon._signal_handler: stop() in a process that has the handlers
\* installed; the interrupted code goes on where it was
SignalHandler(p) ==
    /\ alive[p]
    /\ signalled[p]
    /\ HandlesSignals(p)
    /\ signalled' = [signalled EXCEPT ![p] = FALSE]
    /\ IF running[p]
       THEN /\ running' = [running EXCEPT ![p] = FALSE]
            /\ hotkey' = [hotkey EXCEPT ![p] = FALSE]
            /\ pid_file' = 0
       ELSE UNCHANGED <<running, hotkey, pid_file>>
    /\ UNCHANGED <<alive, daemon_pc, exit_code, stop_pc, stop_pid, stop_code>>
    /\ UNCHANGED NotDaemon

\* the ways keyboard.wait can end in HotkeyDaemon.run
WaitEnds == {"returns", "raises"}

\* HotkeyDaemon.run: keyboard.wait returns (return 0) or raises (stop(), return 1)
RunReturns(p) ==
    /\ daemon_pc[p] = "wait"
    /\ \E end \in WaitEnds :
        IF end = "raises"
        THEN /\ Exits(p, 1)
             /\ running' = [running EXCEPT ![p] = FALSE]
             /\ pid_file' = IF running[p] THEN 0 ELSE pid_file
        ELSE /\ Exits(p, 0)
             /\ UNCHANGED <<running, pid_file>>
    /\ UNCHANGED <<stop_pc, stop_pid, stop_code>>
    /\ UNCHANGED NotDaemon

\* daemon_stop is called
DaemonStop ==
    /\ stop_pc \in {"none", "returned"}
    /\ stop_pc' = "pid"
    /\ stop_pid' = 0
    /\ stop_code' = -1
    /\ UNCHANGED <<pid_file, alive, daemon_pc, running, hotkey, signalled, exit_code>>
    /\ UNCHANGED NotDaemon

\* daemon_stop: get_running_daemon_pid; None returns 1
StopGetsPid ==
    /\ stop_pc = "pid"
    /\ stop_pid' = GetRunningDaemonPid
    /\ pid_file' = StaleRemoved
    /\ IF GetRunningDaemonPid = 0
       THEN stop_pc' = "returned" /\ stop_code' = 1
       ELSE stop_pc' = "term" /\ UNCHANGED stop_code
    /\ UNCHANGED <<alive, daemon_pc, running, hotkey, signalled, exit_code>>
    /\ UNCHANGED NotDaemon

\* daemon_stop: os.kill(pid, SIGTERM), or ProcessLookupError, unlink and return 0
StopSendsTerm ==
    /\ stop_pc = "term"
    /\ IF alive[stop_pid]
       THEN /\ signalled' = [signalled EXCEPT ![stop_pid] = TRUE]
            /\ stop_pc' = "sleep"
            /\ UNCHANGED <<pid_file, stop_code>>
       ELSE /\ pid_file' = 0
            /\ stop_pc' = "returned"
            /\ stop_code' = 0
            /\ UNCHANGED signalled
    /\ UNCHANGED <<alive, daemon_pc, running, hotkey, exit_code, stop_pid>>
    /\ UNCHANGED NotDaemon

\* daemon_stop after time.sleep(1): is_daemon_running() decides on SIGKILL
StopChecksAgain ==
    /\ stop_pc = "sleep"
    /\ pid_file' = StaleRemoved
    /\ IF IsDaemonRunning
       THEN stop_pc' = "kill" /\ UNCHANGED stop_code
       ELSE stop_pc' = "returned" /\ stop_code' = 0
    /\ UNCHANGED <<alive, daemon_pc, running, hotkey, signalled, exit_code, stop_pid>>
    /\ UNCHANGED NotDaemon

\* daemon_stop: os.kill(pid, SIGKILL) ends the process, or ProcessLookupError and
\* unlink; return 0
StopSendsKill ==
    /\ stop_pc = "kill"
    /\ IF alive[stop_pid]
       THEN /\ Exits(stop_pid, exit_code[stop_pid])
            /\ UNCHANGED pid_file
       ELSE /\ pid_file' = 0
            /\ UNCHANGED <<alive, daemon_pc, hotkey, signalled, exit_code>>
    /\ stop_pc' = "returned"
    /\ stop_code' = 0
    /\ UNCHANGED <<running, stop_pid>>
    /\ UNCHANGED NotDaemon

NextDaemon ==
    \/ \E p \in Daemons :
        \/ DaemonStart(p)
        \/ AlreadyRunning(p)
        \/ NotRunning(p)
        \/ SavePid(p)
        \/ RegisterHotkey(p)
        \/ RegisterFails(p)
        \/ SignalHandler(p)
        \/ StartAgain(p)
        \/ RunReturns(p)
    \/ DaemonStop
    \/ StopGetsPid
    \/ StopSendsTerm
    \/ StopChecksAgain
    \/ StopSendsKill

SpecDaemon == Init /\ [][NextDaemon]_vars

\* C14: when daemon_stop has found a daemon, signalled it and returned 0, the
\* process of that daemon has terminated.
C14_StoppedDaemonHasTerminated ==
    (stop_pc = "returned" /\ stop_code = 0 /\ stop_pid # 0) => ~alive[stop_pid]

\* C15: at most one process is a running hotkey daemon at any time, however the
\* invocations of daemon_start interleave.
C15_AtMostOneDaemonRuns ==
    Cardinality({p \in Daemons : alive[p] /\ running[p] /\ hotkey[p]}) <= 1

====
